---- MODULE Spec2Model ----
(***************************************************************************)
(* Model of ubirch-protocol-go: the Protocol engine (packet encoding,      *)
(* signing pipeline, chain state, verification) and the PKCS#11 HSM        *)
(* backend (retry engine, error classifier, session manager, key store).  *)
(*                                                                         *)
(* Byte strings are sequences of integers 0..255.  A nil slice is the      *)
(* value NilBytes.                                                         *)
(***************************************************************************)
EXTENDS Integers, Sequences, FiniteSets, TLC

(***************************************************************************)
(* Bounds of the model.                                                    *)
(***************************************************************************)
\* number of packets the Protocol instance returns in one run
MaxSigns == 3

\* the configured retry bounds tried: pkcs11Retries \in 0..MaxRetries
MaxRetries == 3

\* number of device calls the environment lets fail in one run
MaxFaults == 2

(***************************************************************************)
(* Program constants.                                                      *)
(***************************************************************************)
Signed == 34
Chained == 35
Binary == 0
Disable == 250
expectedHashSize == 32
nistp256SignatureLength == 64
nistp256RLength == 32
nistp256SLength == 32
lenMsgpackSignatureElement == 2 + nistp256SignatureLength

(***************************************************************************)
(* Byte-string helpers.                                                    *)
(***************************************************************************)
NilBytes == <<-1>>

IsNil(b) == b = NilBytes

Rep(n, b) == [i \in 1..n |-> b]

\* len() of a Go slice: 0 for nil
GoLen(b) == IF IsNil(b) THEN 0 ELSE Len(b)

\* b[lo:] and b[:hi] with 0-based Go offsets
SliceFrom(b, lo) == SubSeq(b, lo + 1, Len(b))

SliceTo(b, hi) == SubSeq(b, 1, hi)

(***************************************************************************)
(* Inputs of the model.                                                    *)
(***************************************************************************)
UuidA == Rep(16, 161)

UuidB == Rep(16, 162)

Uuids == {UuidA, UuidB}

Names == {"devA", "devB", "nobody"}

\* two hashes that differ in their last byte only, and one of a wrong length
Hash1 == Rep(31, 7) \o <<8>>

Hash2 == Rep(31, 7) \o <<9>>

HashShort == Rep(31, 7)

Hashes == {Hash1, Hash2, HashShort}

Versions == {Signed, Chained, 0}

Hints == {Binary}

SignerOutcomes == {"ok", "error", "short"}

\* the calls of SignHashExtended tried: every well-formed call with every way
\* the Signer can end, and one call for each malformed argument
SignInputs ==
    {[name |-> n, hash |-> h, protocol |-> v, hint |-> t, outcome |-> "ok"] :
        n \in {"devA", "devB"}, h \in {Hash1, Hash2}, v \in {Signed, Chained},
        t \in Hints}
    \cup {[name |-> n, hash |-> Hash1, protocol |-> v, hint |-> Binary, outcome |-> o] :
            n \in {"devA", "devB"}, v \in {Signed, Chained},
            o \in SignerOutcomes \ {"ok"}}
    \cup {[name |-> "devA", hash |-> HashShort, protocol |-> v, hint |-> Disable,
           outcome |-> "ok"] : v \in {Signed, Chained}}
    \cup {[name |-> "nobody", hash |-> Hash1, protocol |-> v, hint |-> Binary,
           outcome |-> "ok"] : v \in {Signed, Chained}}
    \cup {[name |-> "devA", hash |-> Hash1, protocol |-> 0, hint |-> Binary,
           outcome |-> "ok"]}

(***************************************************************************)
(* State.                                                                  *)
(***************************************************************************)
VARIABLES
    Signatures,   \* Protocol.Signatures: map from uuid to the last signature
    issued,       \* the Signer's table: the (id, data, sig) it has produced
    returned,     \* history: the packets SignHashExtended returned, in order
    lastCall,     \* history: the outcome of the latest Protocol call
    signing       \* per caller: position and locals inside SignHashExtended

pvars == <<Signatures, issued, returned, lastCall, signing>>

VARIABLES
    sessionHandle,  \* E.sessionHandle
    pkcs11Retries,  \* E.pkcs11Retries
    dev,            \* the device behind E.pkcs11Ctx: library state, sessions, objects
    faults,         \* history: the device calls the environment has let fail
    frame           \* per caller: position in the backend's code, locals, history

hvars == <<sessionHandle, pkcs11Retries, dev, faults, frame>>

VARIABLES
    codecCall       \* history: the latest call of a package-level function

cvars == <<codecCall>>

vars == <<pvars, hvars, cvars>>

\* the goroutines that call into one Protocol or one backend instance
Callers == {"c1", "c2"}

\* the callers of the sequential specifications
SeqCallers == {"c1"}

(***************************************************************************)
(* Crypto capability, as the Protocol sees it                              *)
(***************************************************************************)
\* Crypto.GetUUID: resolves a name, fails for an unknown one
GetUUIDKnown(name) == name \in {"devA", "devB"}

GetUUID(name) == IF name = "devA" THEN UuidA ELSE UuidB

\* the n-th signature value the Signer hands out (r || s, 64 bytes, never all zero)
SigValue(n) == <<n>> \o Rep(nistp256SignatureLength - 1, 170)

\* the signature of data under the key of id: a function of (id, data), injective
\* over what has been signed (an ideal signature scheme)
SignatureOf(id, data) ==
    IF \E e \in issued : e.id = id /\ e.data = data
    THEN (CHOOSE e \in issued : e.id = id /\ e.data = data).sig
    ELSE SigValue(Cardinality(issued) + 1)

\* Crypto.Sign as the environment lets it end: a signature, an error, or a
\* signature of a wrong length
CryptoSign(id, data, outcome) ==
    IF outcome = "error" \/ Len(data) = 0
    THEN [err |-> TRUE, sig |-> NilBytes]
    ELSE IF outcome = "short"
    THEN [err |-> FALSE, sig |-> SliceTo(SignatureOf(id, data), nistp256SignatureLength - 1)]
    ELSE [err |-> FALSE, sig |-> SignatureOf(id, data)]

\* ecdsa.Verify of (r, s) over data under the public key of id
EcdsaVerify(id, data, r, s) ==
    \E e \in issued :
        /\ e.id = id
        /\ e.data = data
        /\ SliceTo(e.sig, nistp256RLength) = r
        /\ SliceFrom(e.sig, nistp256SLength) = s

\* a Verify that reads r where it should read s
CryptoVerifyROnly(id, data, signature) ==
    IF Len(data) = 0
    THEN [ok |-> FALSE, err |-> TRUE]
    ELSE IF Len(signature) # nistp256SignatureLength
    THEN [ok |-> FALSE, err |-> TRUE]
    ELSE [ok |-> \E e \in issued :
                    /\ e.id = id
                    /\ e.data = data
                    /\ SliceTo(e.sig, nistp256RLength)
                            = SliceTo(signature, nistp256RLength),
          err |-> FALSE]

\* ECDSAPKCS11CryptoContext.Verify with a readable public key for id
CryptoVerify(id, data, signature) ==
    IF Len(data) = 0
    THEN [ok |-> FALSE, err |-> TRUE]
    ELSE IF Len(signature) # nistp256SignatureLength
    THEN [ok |-> FALSE, err |-> TRUE]
    ELSE [ok |-> EcdsaVerify(id, data, SliceTo(signature, nistp256RLength),
                             SliceFrom(signature, nistp256SLength)),
          err |-> FALSE]

(***************************************************************************)
(* Packet codec: MsgPack, struct as array                                  *)
(***************************************************************************)
MsgpackUint(v) == IF v < 128 THEN <<v>> ELSE <<204, v>>

MsgpackBytes(b) == IF IsNil(b) THEN <<192>> ELSE <<196, Len(b)>> \o b

MsgpackArray(n) == <<144 + n>>

SignedUPP(id, hint, payload, signature) ==
    [Version |-> Signed, Uuid |-> id, Hint |-> hint, Payload |-> payload,
     Signature |-> signature]

ChainedUPP(id, prev, hint, payload, signature) ==
    [Version |-> Chained, Uuid |-> id, PrevSignature |-> prev, Hint |-> hint,
     Payload |-> payload, Signature |-> signature]

IsChainedUPP(upp) == "PrevSignature" \in DOMAIN upp

Encode(upp) ==
    IF IsChainedUPP(upp)
    THEN MsgpackArray(6) \o MsgpackUint(upp.Version) \o MsgpackBytes(upp.Uuid)
            \o MsgpackBytes(upp.PrevSignature) \o MsgpackUint(upp.Hint)
            \o MsgpackBytes(upp.Payload) \o MsgpackBytes(upp.Signature)
    ELSE MsgpackArray(5) \o MsgpackUint(upp.Version) \o MsgpackBytes(upp.Uuid)
            \o MsgpackUint(upp.Hint) \o MsgpackBytes(upp.Payload)
            \o MsgpackBytes(upp.Signature)

\* no package-level function has been called yet
NoCall == [op |-> "none"]

\* the zero values of the two packet structs
ZeroSignedUPP ==
    [Version |-> 0, Uuid |-> Rep(16, 0), Hint |-> 0, Payload |-> NilBytes,
     Signature |-> NilBytes]

ZeroChainedUPP ==
    [Version |-> 0, Uuid |-> Rep(16, 0), PrevSignature |-> NilBytes, Hint |-> 0,
     Payload |-> NilBytes, Signature |-> NilBytes]

\* the fields of the two structs in their order, and what each holds
SignedFields ==
    <<[name |-> "Version", kind |-> "uint"], [name |-> "Uuid", kind |-> "uuid"],
      [name |-> "Hint", kind |-> "uint"], [name |-> "Payload", kind |-> "bin"],
      [name |-> "Signature", kind |-> "bin"]>>

ChainedFields ==
    <<[name |-> "Version", kind |-> "uint"], [name |-> "Uuid", kind |-> "uuid"],
      [name |-> "PrevSignature", kind |-> "bin"], [name |-> "Hint", kind |-> "uint"],
      [name |-> "Payload", kind |-> "bin"], [name |-> "Signature", kind |-> "bin"]>>

\* the MsgPack value that starts at position p (1-based) of b: an unsigned
\* integer, a byte string or nil, the types Encode writes; anything else, and
\* a value that runs past the end of b, is malformed
ReadItem(b, p) ==
    IF p > Len(b) THEN [ok |-> FALSE, kind |-> "", val |-> 0, next |-> p]
    ELSE IF b[p] < 128 THEN [ok |-> TRUE, kind |-> "uint", val |-> b[p], next |-> p + 1]
    ELSE IF b[p] = 204
    THEN IF p + 1 > Len(b) THEN [ok |-> FALSE, kind |-> "", val |-> 0, next |-> p]
         ELSE [ok |-> TRUE, kind |-> "uint", val |-> b[p + 1], next |-> p + 2]
    ELSE IF b[p] = 192 THEN [ok |-> TRUE, kind |-> "nil", val |-> 0, next |-> p + 1]
    ELSE IF b[p] = 196
    THEN IF p + 1 > Len(b) \/ p + 1 + b[p + 1] > Len(b)
         THEN [ok |-> FALSE, kind |-> "", val |-> 0, next |-> p]
         ELSE [ok |-> TRUE, kind |-> "bin", val |-> SubSeq(b, p + 2, p + 1 + b[p + 1]),
               next |-> p + 2 + b[p + 1]]
    ELSE [ok |-> FALSE, kind |-> "", val |-> 0, next |-> p]

\* whether the value read can be stored in a field of that kind: nil leaves
\* the field at its zero value, a uuid takes exactly 16 bytes
Fits(item, kind) ==
    \/ item.kind = "nil"
    \/ kind = "uint" /\ item.kind = "uint"
    \/ kind = "bin" /\ item.kind = "bin"
    \/ kind = "uuid" /\ item.kind = "bin" /\ Len(item.val) = 16

RECURSIVE DecodeFields(_, _, _, _, _, _)
\* the elements i..n of the array that starts at position p of b, stored into
\* the struct acc with the given fields; elements past the last field are
\* read and dropped
DecodeFields(b, p, i, n, fields, acc) ==
    IF i > n THEN [err |-> "", upp |-> acc]
    ELSE LET item == ReadItem(b, p) IN
         IF ~item.ok THEN [err |-> "decode", upp |-> acc]
         ELSE IF i > Len(fields) THEN DecodeFields(b, item.next, i + 1, n, fields, acc)
         ELSE IF ~Fits(item, fields[i].kind) THEN [err |-> "decode", upp |-> acc]
         ELSE DecodeFields(b, item.next, i + 1, n, fields,
                           IF item.kind = "nil" THEN acc
                           ELSE [acc EXCEPT ![fields[i].name] = item.val])

\* decoder.Decode into a struct written as an array: the array header and
\* then its elements; fields the array is too short for keep their zero value
DecodeStruct(b, fields, zero) ==
    IF b[1] \in 144..159
    THEN DecodeFields(b, 2, 1, b[1] - 144, fields, zero)
    ELSE [err |-> "decode", upp |-> zero]

\* no packet: the nil UPP returned with an error
NoUPP == [Version |-> -1]

\* a Decode that takes every packet for a Signed one
DecodeAlwaysSigned(upp) ==
    IF IsNil(upp) \/ Len(upp) < 2
    THEN [err |-> "input", upp |-> NoUPP]
    ELSE LET d == DecodeStruct(upp, SignedFields, ZeroSignedUPP) IN
         IF d.err # "" THEN [err |-> d.err, upp |-> NoUPP] ELSE d

\* a Decode that does not look at the tag for input that does not decode as
\* a Signed or Chained packet
DecodeUnchecked(upp) ==
    IF IsNil(upp) \/ Len(upp) < 2
    THEN [err |-> "input", upp |-> NoUPP]
    ELSE IF upp[2] = Chained
    THEN LET d == DecodeStruct(upp, ChainedFields, ZeroChainedUPP) IN
         IF d.err # "" THEN [err |-> d.err, upp |-> NoUPP] ELSE d
    ELSE LET d == DecodeStruct(upp, SignedFields, ZeroSignedUPP) IN
         IF d.err # "" THEN [err |-> d.err, upp |-> NoUPP] ELSE d

\* Decode, lines 225-253: upp[1] of the source is upp[2] here
Decode(upp) ==
    IF IsNil(upp) \/ Len(upp) < 2
    THEN [err |-> "input", upp |-> NoUPP]
    ELSE IF upp[2] = Signed
    THEN LET d == DecodeStruct(upp, SignedFields, ZeroSignedUPP) IN
         IF d.err # "" THEN [err |-> d.err, upp |-> NoUPP] ELSE d
    ELSE IF upp[2] = Chained
    THEN LET d == DecodeStruct(upp, ChainedFields, ZeroChainedUPP) IN
         IF d.err # "" THEN [err |-> d.err, upp |-> NoUPP] ELSE d
    ELSE [err |-> "version", upp |-> NoUPP]

\* DecodeSigned, lines 255-267
DecodeSigned(upp) ==
    LET d == Decode(upp) IN
    IF d.err # "" THEN d
    ELSE IF IsChainedUPP(d.upp) THEN [err |-> "type", upp |-> NoUPP]
    ELSE d

\* DecodeChained, lines 269-281
DecodeChained(upp) ==
    LET d == Decode(upp) IN
    IF d.err # "" THEN d
    ELSE IF ~IsChainedUPP(d.upp) THEN [err |-> "type", upp |-> NoUPP]
    ELSE d

\* an appendSignature that leaves out the two framing bytes
appendSignatureBare(data, signature) ==
    IF GoLen(data) = 0 \/ GoLen(signature) = 0
    THEN NilBytes
    ELSE data \o signature

appendSignature(data, signature) ==
    IF GoLen(data) = 0 \/ GoLen(signature) = 0
    THEN NilBytes
    ELSE data \o <<196, Len(signature)>> \o signature

\* the packets the codec is tried on: both variants, a hint of one and of two
\* encoded bytes, payloads of 32 bytes, of one byte and of none
CodecPackets ==
    {SignedUPP(id, hint, payload, SigValue(n)) :
        id \in Uuids, hint \in {Binary, Disable}, payload \in {Hash1, <<7>>, << >>},
        n \in {1, 2}}
    \cup {ChainedUPP(id, prev, hint, payload, SigValue(n)) :
            id \in Uuids, prev \in {Rep(nistp256SignatureLength, 0), SigValue(3)},
            hint \in {Binary, Disable}, payload \in {Hash1, <<7>>, << >>}, n \in {1, 2}}

\* the bytes Decode is tried on: encodings, encodings cut short at every
\* length, encodings with another byte at offset 1, nil and the empty slice
CodecBytes ==
    LET base == {Encode(SignedUPP(UuidA, Binary, Hash1, SigValue(1))),
                 Encode(ChainedUPP(UuidA, SigValue(3), Disable, <<7>>, SigValue(2)))}
    IN  {NilBytes, << >>}
        \cup {Encode(p) : p \in CodecPackets}
        \cup UNION {{SliceTo(e, k) : k \in 0..(Len(e) - 1)} : e \in base}
        \cup {[e EXCEPT ![2] = t] : e \in base, t \in {0, 1, 33, Signed, Chained, 36, 204}}

\* Encode and then Decode of a packet.  The functions of the codec keep no
\* state, so a behaviour holds one call of them
CallEncodeDecode(p) ==
    /\ codecCall = NoCall
    /\ codecCall' = [op |-> "EncodeDecode", p |-> p, in |-> Encode(p),
                     res |-> Decode(Encode(p))]
    /\ UNCHANGED <<pvars, hvars>>

CallDecode(b) ==
    /\ codecCall = NoCall
    /\ codecCall' = [op |-> "Decode", p |-> NoUPP, in |-> b, res |-> Decode(b)]
    /\ UNCHANGED <<pvars, hvars>>

CallDecodeSigned(b) ==
    /\ codecCall = NoCall
    /\ codecCall' = [op |-> "DecodeSigned", p |-> NoUPP, in |-> b, res |-> DecodeSigned(b)]
    /\ UNCHANGED <<pvars, hvars>>

CallDecodeChained(b) ==
    /\ codecCall = NoCall
    /\ codecCall' = [op |-> "DecodeChained", p |-> NoUPP, in |-> b, res |-> DecodeChained(b)]
    /\ UNCHANGED <<pvars, hvars>>

(***************************************************************************)
(* Protocol engine                                                         *)
(***************************************************************************)
\* sign, line 300: the encoding without its last byte
UppWithoutSig(encoded) == SliceTo(encoded, Len(encoded) - 1)

\* a sign that stores the signature of every packet, Signed ones included
SavesSignatureAlways(upp) == upp.Version \in {Signed, Chained}

\* sign, line 316: which packets leave their signature in the chain state
\* a sign that stores the signature of whatever packet it signed
SavesSignatureOfAny(upp) == TRUE

SavesSignature(upp) == upp.Version = Chained

\* a sign that saves the signature of a Chained packet as soon as the Signer
\* has returned it
signSavesUnchecked(upp, outcome) ==
    LET encoded == Encode(upp)
        uppWithoutSig == UppWithoutSig(encoded)
        s == CryptoSign(upp.Uuid, uppWithoutSig, outcome)
        uppWithSig == appendSignature(uppWithoutSig, s.sig)
    IN  [err |-> IF s.err THEN "sign"
                 ELSE IF Len(s.sig) # nistp256SignatureLength THEN "siglen"
                 ELSE IF IsNil(uppWithSig) THEN "append" ELSE "",
         out |-> IF s.err \/ Len(s.sig) # nistp256SignatureLength THEN NilBytes
                 ELSE uppWithSig,
         sigs |-> IF ~s.err /\ SavesSignature(upp)
                  THEN [i \in DOMAIN Signatures \cup {upp.Uuid} |->
                           IF i = upp.Uuid THEN s.sig ELSE Signatures[i]]
                  ELSE Signatures,
         called |-> TRUE, data |-> uppWithoutSig, sig |-> s.sig]

\* sign: the bytes returned, the error, and the new chain state
sign(upp, outcome) ==
    LET encoded == Encode(upp)
        uppWithoutSig == UppWithoutSig(encoded)
        s == CryptoSign(upp.Uuid, uppWithoutSig, outcome)
        uppWithSig == appendSignature(uppWithoutSig, s.sig)
    IN  IF s.err
        THEN [err |-> "sign", out |-> NilBytes, sigs |-> Signatures,
              called |-> TRUE, data |-> uppWithoutSig, sig |-> NilBytes]
        ELSE IF Len(s.sig) # nistp256SignatureLength
        THEN [err |-> "siglen", out |-> NilBytes, sigs |-> Signatures,
              called |-> TRUE, data |-> uppWithoutSig, sig |-> s.sig]
        ELSE IF IsNil(uppWithSig)
        THEN [err |-> "append", out |-> NilBytes, sigs |-> Signatures,
              called |-> TRUE, data |-> uppWithoutSig, sig |-> s.sig]
        ELSE [err |-> "", out |-> uppWithSig,
              sigs |-> IF SavesSignature(upp)
                       THEN [i \in DOMAIN Signatures \cup {upp.Uuid} |->
                                IF i = upp.Uuid THEN s.sig ELSE Signatures[i]]
                       ELSE Signatures,
              called |-> TRUE, data |-> uppWithoutSig, sig |-> s.sig]

NoSign(e) ==
    [err |-> e, out |-> NilBytes, sigs |-> Signatures, called |-> FALSE,
     data |-> NilBytes, sig |-> NilBytes]

\* SignHashExtended, lines 371-376: the previous signature of a Chained packet
PrevSignatureFor(id) ==
    IF id \notin DOMAIN Signatures
    THEN Rep(nistp256SignatureLength, 0)
    ELSE Signatures[id]

SignHashExtendedResult(name, hash, protocol, hint, outcome) ==
    IF Len(hash) # expectedHashSize THEN NoSign("hashsize")
    ELSE IF ~GetUUIDKnown(name) THEN NoSign("uuid")
    ELSE LET id == GetUUID(name) IN
         IF protocol = Signed
         THEN sign(SignedUPP(id, hint, hash, NilBytes), outcome)
         ELSE IF protocol = Chained
         THEN IF id \in DOMAIN Signatures
                 /\ Len(Signatures[id]) # nistp256SignatureLength
              THEN NoSign("lastsig")
              ELSE sign(ChainedUPP(id, PrevSignatureFor(id), hint, hash, NilBytes),
                        outcome)
         ELSE NoSign("version")

SignHashExtended(name, hash, protocol, hint, outcome) ==
    LET r == SignHashExtendedResult(name, hash, protocol, hint, outcome) IN
    /\ Len(returned) < MaxSigns
    /\ Signatures' = r.sigs
    /\ issued' = IF r.called /\ outcome = "ok"
                 THEN issued \cup {[id |-> GetUUID(name), data |-> r.data, sig |-> r.sig]}
                 ELSE issued
    /\ returned' = IF r.err = ""
                   THEN Append(returned,
                               [name |-> name, version |-> protocol, hint |-> hint,
                                hash |-> hash, upp |-> r.out,
                                data |-> r.data, sig |-> r.sig])
                   ELSE returned
    /\ lastCall' = [op |-> "SignHashExtended", err |-> r.err, ok |-> r.err = "",
                    called |-> r.called, tampered |-> FALSE,
                    sigLen |-> GoLen(r.sig), gotPacket |-> ~IsNil(r.out),
                    resolved |-> r.err # "hashsize"]
    /\ UNCHANGED <<signing, hvars, cvars>>

\* a Verify that strips the signature and forgets its two framing bytes
VerifyDataKeepsFraming(upp) == SliceTo(upp, Len(upp) - nistp256SignatureLength)

\* Verify, line 394: the bytes handed to the Verifier as signed data
VerifyData(upp) == SliceTo(upp, Len(upp) - lenMsgpackSignatureElement)

\* Verify, line 395: the bytes handed to the Verifier as signature
VerifySignature(upp) == SliceFrom(upp, Len(upp) - nistp256SignatureLength)

\* a Verify that lets an input of 66 bytes through
VerifyResultOffByOne(name, upp) ==
    IF GoLen(upp) < lenMsgpackSignatureElement
    THEN [ok |-> FALSE, err |-> TRUE, called |-> FALSE, resolved |-> FALSE,
          data |-> NilBytes, sig |-> NilBytes]
    ELSE IF ~GetUUIDKnown(name)
    THEN [ok |-> FALSE, err |-> TRUE, called |-> FALSE, resolved |-> TRUE,
          data |-> NilBytes, sig |-> NilBytes]
    ELSE LET v == CryptoVerify(GetUUID(name), VerifyData(upp), VerifySignature(upp))
         IN  [ok |-> v.ok, err |-> v.err, called |-> TRUE, resolved |-> TRUE,
              data |-> VerifyData(upp), sig |-> VerifySignature(upp)]

\* Verify, lines 384-397: the result, whether GetUUID and the Verifier were
\* called, and what the Verifier was handed
VerifyResult(name, upp) ==
    IF GoLen(upp) <= lenMsgpackSignatureElement
    THEN [ok |-> FALSE, err |-> TRUE, called |-> FALSE, resolved |-> FALSE,
          data |-> NilBytes, sig |-> NilBytes]
    ELSE IF ~GetUUIDKnown(name)
    THEN [ok |-> FALSE, err |-> TRUE, called |-> FALSE, resolved |-> TRUE,
          data |-> NilBytes, sig |-> NilBytes]
    ELSE LET v == CryptoVerify(GetUUID(name), VerifyData(upp), VerifySignature(upp))
         IN  [ok |-> v.ok, err |-> v.err, called |-> TRUE, resolved |-> TRUE,
              data |-> VerifyData(upp), sig |-> VerifySignature(upp)]

\* a packet with the byte at position pos (1-based) changed by delta
Tamper(upp, pos, delta) == [upp EXCEPT ![pos] = (@ + delta) % 256]

\* the positions of the signed body and of the trailing signature of a packet
BodyPositions(upp) == 1 .. (Len(upp) - lenMsgpackSignatureElement)

SignaturePositions(upp) == (Len(upp) - nistp256SignatureLength + 1) .. Len(upp)

\* the positions of the two framing bytes before the trailing signature
FramingPositions(upp) ==
    (Len(upp) - lenMsgpackSignatureElement + 1) .. (Len(upp) - nistp256SignatureLength)

\* the inputs the Verify action is tried on: the latest returned packet, as it
\* is, cut short, or with one byte changed
VerifyInputs ==
    IF returned = <<>> THEN {}
    ELSE LET upp == returned[Len(returned)].upp IN
         {[upp |-> upp, tampered |-> FALSE],
          [upp |-> SliceTo(upp, lenMsgpackSignatureElement), tampered |-> TRUE]}
         \cup {[upp |-> Tamper(upp, p, 1), tampered |-> TRUE] :
                 p \in {2, Len(upp) - lenMsgpackSignatureElement,
                        Len(upp) - lenMsgpackSignatureElement + 1,
                        Len(upp) - nistp256SignatureLength + 1, Len(upp)}}

Verify(name, in) ==
    LET v == VerifyResult(name, in.upp) IN
    /\ lastCall' = [op |-> "Verify", err |-> IF v.err THEN "verify" ELSE "",
                    ok |-> v.ok, called |-> v.called, tampered |-> in.tampered,
                    sigLen |-> 0, gotPacket |-> FALSE, resolved |-> v.resolved]
    /\ UNCHANGED <<Signatures, issued, returned, signing, hvars, cvars>>

\* SignedUPP.GetSignature and ChainedUPP.GetSignature
GetSignature(upp) == upp.Signature

\* SignedUPP.GetPrevSignature, line 160, and ChainedUPP.GetPrevSignature
GetPrevSignature(upp) == IF IsChainedUPP(upp) THEN upp.PrevSignature ELSE NilBytes

\* a CheckChainLink that compares the first halves of the two values only
CheckChainLinkHalf(previousUPP, subsequentUPP) ==
    IF GoLen(GetSignature(previousUPP)) = 0 THEN [ok |-> FALSE, err |-> "signature"]
    ELSE IF GoLen(GetPrevSignature(subsequentUPP)) = 0
    THEN [ok |-> FALSE, err |-> "prevSignature"]
    ELSE [ok |-> SliceTo(GetSignature(previousUPP), nistp256RLength)
                    = SliceTo(GetPrevSignature(subsequentUPP), nistp256RLength),
          err |-> ""]

\* CheckChainLink, lines 402-410
CheckChainLink(previousUPP, subsequentUPP) ==
    IF GoLen(GetSignature(previousUPP)) = 0 THEN [ok |-> FALSE, err |-> "signature"]
    ELSE IF GoLen(GetPrevSignature(subsequentUPP)) = 0
    THEN [ok |-> FALSE, err |-> "prevSignature"]
    ELSE [ok |-> GetSignature(previousUPP) = GetPrevSignature(subsequentUPP),
          err |-> ""]

\* the ways the two arguments of CheckChainLink are made from two returned
\* packets: decoded as they are, decoded after the last byte of the signature
\* was changed, or with the field in question emptied
PrevMods == {"asis", "corrupt", "unsigned"}

NextMods == {"asis", "noprev"}

LinkMods ==
    {[prev |-> pm, next |-> "asis"] : pm \in PrevMods}
    \cup {[prev |-> "asis", next |-> "noprev"]}

LinkPrev(upp, mod) ==
    CASE mod = "asis" -> Decode(upp).upp
      [] mod = "corrupt" -> Decode(Tamper(upp, Len(upp), 1)).upp
      [] mod = "unsigned" -> [Decode(upp).upp EXCEPT !.Signature = NilBytes]

LinkNext(upp, mod) ==
    LET d == Decode(upp).upp IN
    IF mod = "noprev" /\ IsChainedUPP(d) THEN [d EXCEPT !.PrevSignature = << >>] ELSE d

\* CheckChainLink on the i-th and the later j-th packet the Protocol has
\* returned
CallCheckChainLink(i, j, prevMod, nextMod) ==
    /\ i \in 1..Len(returned) /\ j \in 1..Len(returned)
    /\ i < j
    /\ LET previousUPP == LinkPrev(returned[i].upp, prevMod)
           subsequentUPP == LinkNext(returned[j].upp, nextMod)
       IN  codecCall' = [op |-> "CheckChainLink", i |-> i, j |-> j,
                         prevMod |-> prevMod, nextMod |-> nextMod,
                         prev |-> previousUPP, next |-> subsequentUPP,
                         res |-> CheckChainLink(previousUPP, subsequentUPP)]
    /\ UNCHANGED <<pvars, hvars>>

\* the calls of SignHashExtended that feed CheckChainLink
LinkInputs ==
    {[name |-> "devA", hash |-> h, protocol |-> Chained] : h \in {Hash1, Hash2}}
    \cup {[name |-> "devB", hash |-> Hash1, protocol |-> Chained],
          [name |-> "devA", hash |-> Hash1, protocol |-> Signed]}

(***************************************************************************)
(* Protocol engine, callers running SignHashExtended side by side: the     *)
(* Protocol has no lock, so a call is three steps, the read of             *)
(* p.Signatures, the Signer's call, and the write of p.Signatures          *)
(***************************************************************************)
IdleSigner ==
    [pc |-> "idle",        \* where the caller is: idle, Sign, Save, done
     name |-> "", hash |-> NilBytes, version |-> 0, hint |-> 0,  \* the arguments
     prev |-> NilBytes,    \* SignHashExtended: prevSignature
     data |-> NilBytes,    \* sign: uppWithoutSig
     sig |-> NilBytes,     \* sign: signature
     out |-> NilBytes,     \* sign: uppWithSig
     err |-> ""]           \* the error returned (pc = "done"; the locals are gone)

\* the calls tried side by side: Chained ones, a Signed one and a malformed one
ChainInputs ==
    {[name |-> n, hash |-> h, protocol |-> Chained] :
        n \in {"devA", "devB"}, h \in {Hash1, Hash2}}
    \cup {[name |-> "devA", hash |-> Hash1, protocol |-> v] : v \in {Signed, 0}}

\* the packet SignHashExtended hands to sign, lines 369 and 377
PacketOf(s) ==
    IF s.version = Signed
    THEN SignedUPP(GetUUID(s.name), s.hint, s.hash, NilBytes)
    ELSE ChainedUPP(GetUUID(s.name), s.prev, s.hint, s.hash, NilBytes)

\* SignHashExtended, lines 358-377, up to the call of sign: the checks and the
\* read of the last signature
SignHashExtendedLoads(c, name, hash, protocol, hint) ==
    /\ signing[c].pc \in {"idle", "done"}
    /\ Len(returned) < MaxSigns
    /\ LET s == [IdleSigner EXCEPT !.name = name, !.hash = hash, !.version = protocol,
                                   !.hint = hint]
           e == IF Len(hash) # expectedHashSize THEN "hashsize"
                ELSE IF ~GetUUIDKnown(name) THEN "uuid"
                ELSE IF protocol \notin {Signed, Chained} THEN "version"
                ELSE IF /\ protocol = Chained
                        /\ GetUUID(name) \in DOMAIN Signatures
                        /\ Len(Signatures[GetUUID(name)]) # nistp256SignatureLength
                THEN "lastsig"
                ELSE ""
       IN  signing' = [signing EXCEPT ![c] =
                IF e # "" THEN [IdleSigner EXCEPT !.pc = "done", !.err = e]
                ELSE [s EXCEPT !.pc = "Sign",
                               !.prev = IF protocol = Chained
                                        THEN PrevSignatureFor(GetUUID(name))
                                        ELSE NilBytes]]
    /\ UNCHANGED <<Signatures, issued, returned, lastCall, hvars, cvars>>

\* sign, lines 295-313: encoding, the Signer's call, and the framing
signCallsSigner(c, outcome) ==
    /\ signing[c].pc = "Sign"
    /\ LET s == signing[c]
           id == GetUUID(s.name)
           uppWithoutSig == UppWithoutSig(Encode(PacketOf(s)))
           r == CryptoSign(id, uppWithoutSig, outcome)
           uppWithSig == appendSignature(uppWithoutSig, r.sig)
           e == IF r.err THEN "sign"
                ELSE IF Len(r.sig) # nistp256SignatureLength THEN "siglen"
                ELSE IF IsNil(uppWithSig) THEN "append"
                ELSE ""
       IN  /\ signing' = [signing EXCEPT ![c] =
                    IF e # "" THEN [IdleSigner EXCEPT !.pc = "done", !.err = e]
                    ELSE [s EXCEPT !.pc = "Save", !.data = uppWithoutSig,
                                   !.sig = r.sig, !.out = uppWithSig]]
           /\ issued' = IF outcome = "ok"
                        THEN issued \cup {[id |-> id, data |-> uppWithoutSig, sig |-> r.sig]}
                        ELSE issued
    /\ UNCHANGED <<Signatures, returned, lastCall, hvars, cvars>>

\* sign, lines 316-320: the write of the last signature, and the return
signSaves(c) ==
    /\ signing[c].pc = "Save"
    /\ LET s == signing[c]
           id == GetUUID(s.name)
       IN  /\ Signatures' = IF SavesSignature(PacketOf(s))
                            THEN [i \in DOMAIN Signatures \cup {id} |->
                                     IF i = id THEN s.sig ELSE Signatures[i]]
                            ELSE Signatures
           /\ returned' = Append(returned,
                                 [name |-> s.name, version |-> s.version, hint |-> s.hint,
                                  hash |-> s.hash, upp |-> s.out, data |-> s.data,
                                  sig |-> s.sig])
           /\ signing' = [signing EXCEPT ![c] = [IdleSigner EXCEPT !.pc = "done"]]
    /\ UNCHANGED <<issued, lastCall, hvars, cvars>>

(***************************************************************************)
(* HSM backend: device return codes and their classification               *)
(***************************************************************************)
CKR_OK == "CKR_OK"

TransientCodes ==
    {"CKR_HOST_MEMORY", "CKR_FUNCTION_FAILED", "CKR_DATA_INVALID",
     "CKR_DATA_LEN_RANGE", "CKR_DEVICE_ERROR", "CKR_DEVICE_MEMORY",
     "CKR_ENCRYPTED_DATA_INVALID", "CKR_ENCRYPTED_DATA_LEN_RANGE",
     "CKR_KEY_SIZE_RANGE", "CKR_KEY_INDIGESTIBLE", "CKR_SESSION_COUNT",
     "CKR_SIGNATURE_INVALID", "CKR_SIGNATURE_LEN_RANGE",
     "CKR_TOKEN_NOT_PRESENT", "CKR_USER_TOO_MANY_TYPES",
     "CKR_WRAPPED_KEY_INVALID", "CKR_WRAPPED_KEY_LEN_RANGE",
     "CKR_PUBLIC_KEY_INVALID"}

DeviceRemovedCodes ==
    {"CKR_DEVICE_REMOVED"}

SessionCodes ==
    {"CKR_OPERATION_ACTIVE", "CKR_OPERATION_NOT_INITIALIZED",
     "CKR_SESSION_CLOSED", "CKR_SESSION_HANDLE_INVALID",
     "CKR_SESSION_EXISTS", "CKR_USER_ALREADY_LOGGED_IN",
     "CKR_USER_NOT_LOGGED_IN", "CKR_CRYPTOKI_NOT_INITIALIZED",
     "CKR_CRYPTOKI_ALREADY_INITIALIZED"}

UnfixableCodes ==
    {"CKR_GENERAL_ERROR", "CKR_ARGUMENTS_BAD", "CKR_SLOT_ID_INVALID",
     "CKR_NO_EVENT", "CKR_NEED_TO_CREATE_THREADS", "CKR_CANT_LOCK",
     "CKR_ATTRIBUTE_READ_ONLY", "CKR_ATTRIBUTE_SENSITIVE",
     "CKR_ATTRIBUTE_TYPE_INVALID", "CKR_ATTRIBUTE_VALUE_INVALID",
     "CKR_ACTION_PROHIBITED", "CKR_FUNCTION_CANCELED",
     "CKR_FUNCTION_NOT_PARALLEL", "CKR_FUNCTION_NOT_SUPPORTED",
     "CKR_KEY_HANDLE_INVALID", "CKR_KEY_TYPE_INCONSISTENT",
     "CKR_KEY_NOT_NEEDED", "CKR_KEY_CHANGED", "CKR_KEY_NEEDED",
     "CKR_KEY_FUNCTION_NOT_PERMITTED", "CKR_KEY_NOT_WRAPPABLE",
     "CKR_KEY_UNEXTRACTABLE", "CKR_MECHANISM_INVALID",
     "CKR_MECHANISM_PARAM_INVALID", "CKR_OBJECT_HANDLE_INVALID",
     "CKR_PIN_INCORRECT", "CKR_PIN_INVALID", "CKR_PIN_LEN_RANGE",
     "CKR_PIN_EXPIRED", "CKR_PIN_LOCKED",
     "CKR_SESSION_PARALLEL_NOT_SUPPORTED", "CKR_SESSION_READ_ONLY",
     "CKR_SESSION_READ_ONLY_EXISTS", "CKR_SESSION_READ_WRITE_SO_EXISTS",
     "CKR_TEMPLATE_INCOMPLETE", "CKR_TEMPLATE_INCONSISTENT",
     "CKR_TOKEN_NOT_RECOGNIZED", "CKR_TOKEN_WRITE_PROTECTED",
     "CKR_UNWRAPPING_KEY_HANDLE_INVALID", "CKR_UNWRAPPING_KEY_SIZE_RANGE",
     "CKR_UNWRAPPING_KEY_TYPE_INCONSISTENT", "CKR_USER_PIN_NOT_INITIALIZED",
     "CKR_USER_TYPE_INVALID", "CKR_USER_ANOTHER_ALREADY_LOGGED_IN",
     "CKR_WRAPPING_KEY_HANDLE_INVALID", "CKR_WRAPPING_KEY_SIZE_RANGE",
     "CKR_WRAPPING_KEY_TYPE_INCONSISTENT", "CKR_RANDOM_SEED_NOT_SUPPORTED",
     "CKR_RANDOM_NO_RNG", "CKR_DOMAIN_PARAMS_INVALID",
     "CKR_CURVE_NOT_SUPPORTED", "CKR_BUFFER_TOO_SMALL",
     "CKR_SAVED_STATE_INVALID", "CKR_INFORMATION_SENSITIVE",
     "CKR_STATE_UNSAVEABLE", "CKR_MUTEX_BAD", "CKR_MUTEX_NOT_LOCKED",
     "CKR_NEW_PIN_MODE", "CKR_NEXT_OTP", "CKR_EXCEEDED_MAX_ITERATIONS",
     "CKR_FIPS_SELF_TEST_FAILED", "CKR_LIBRARY_LOAD_FAILED",
     "CKR_PIN_TOO_WEAK", "CKR_FUNCTION_REJECTED", "CKR_VENDOR_DEFINED"}

\* return codes the switch of pkcs11HandleGenericErrors does not list
UnlistedCodes == {"CKR_CANCEL", "CKR_VENDOR_DEFINED_1"}

ListedCodes == TransientCodes \cup DeviceRemovedCodes \cup SessionCodes \cup UnfixableCodes

\* a handler that takes every code it cannot place for one to retry
HandlerCaseRetriesUnlisted(code) ==
    IF code = CKR_OK THEN "ok"
    ELSE IF code \in DeviceRemovedCodes THEN "wait_reset"
    ELSE IF code \in SessionCodes THEN "reset"
    ELSE IF code \in UnfixableCodes THEN "unfixable"
    ELSE "wait"

\* a handler that waits and retries where the code is deemed unfixable
HandlerCaseFatalWaits(code) ==
    IF code = CKR_OK THEN "ok"
    ELSE IF code \in TransientCodes \cup UnfixableCodes THEN "wait"
    ELSE IF code \in DeviceRemovedCodes THEN "wait_reset"
    ELSE IF code \in SessionCodes THEN "reset"
    ELSE "unknown"

\* pkcs11HandleGenericErrors, lines 538-667: the case of the switch a code takes
HandlerCase(code) ==
    IF code = CKR_OK THEN "ok"
    ELSE IF code \in TransientCodes THEN "wait"
    ELSE IF code \in DeviceRemovedCodes THEN "wait_reset"
    ELSE IF code \in SessionCodes THEN "reset"
    ELSE IF code \in UnfixableCodes THEN "unfixable"
    ELSE "unknown"

\* the codes the environment lets a device call fail with: one of each case
FaultCodes ==
    {"CKR_DEVICE_ERROR", "CKR_DEVICE_REMOVED", "CKR_SESSION_HANDLE_INVALID",
     "CKR_GENERAL_ERROR", "CKR_CANCEL"}

\* what the function handed to pkcs11Retry may return besides nil: a device
\* code, or an error that is no pkcs11.Error
NotPkcs11 == "not_pkcs11"

FResults == {CKR_OK, NotPkcs11} \cup FaultCodes

(***************************************************************************)
(* HSM backend: errors                                                     *)
(***************************************************************************)
\* an error value: its kind, the kind of the error it wraps, the device code at
\* its root, the device call that returned it, and the retry count it reports
Err(kind, inner, code, step, retries) ==
    [kind |-> kind, inner |-> inner, code |-> code, step |-> step, retries |-> retries]

NilErr == Err("nil", "", CKR_OK, "", 0)

\* the errors pkcs11HandleGenericErrors returns
Pkcs11Err(code) == Err("pkcs11", "", code, "", 0)

DontKnowErr(code) == Err("dontknow", "", code, "", 0)

\* a teardown error that always names the logout
TeardownErrLogout(step, code) == Err("teardown", "", code, "Logout", 0)

\* pkcs11TeardownSession, lines 750, 756 and 762
TeardownErr(step, code) == Err("teardown", "", code, step, 0)

SetupErr(step, code) == Err("setup", "", code, step, 0)

\* a give-up error that does not say what the last failure was
GaveUpErrNoCause(retries, code) == Err("gaveup", "", CKR_OK, "", retries)

\* pkcs11Retry, line 683: the error of a call that gave up
GaveUpErr(retries, code) == Err("gaveup", "", code, "", retries)

\* pkcs11Retry, line 691
UnfixableErr(e) == Err("unfixable", e.kind, e.code, e.step, 0)

\* pkcs11Retry, line 694
NotPkcs11Err == Err("notpkcs11", "", NotPkcs11, "", 0)

\* the error an exported operation returns from its return statement `where`,
\* wrapping e (NilErr where the statement wraps nothing)
ApiErr(where, e) == Err("api", e.kind, e.code, where, e.retries)

(***************************************************************************)
(* HSM backend: the frame of a caller                                      *)
(***************************************************************************)
NoId == << >>

IdleFrame ==
    [pc |-> "idle",        \* the device call (or wait) the caller is about to make
     api |-> "none",       \* the exported operation in progress
     stage |-> "none",     \* which pkcs11Retry call of the operation is running
     id |-> NoId,          \* the operation's uuid argument
     priv |-> NilBytes,    \* the operation's private key argument
     retries |-> 0,        \* pkcs11Retry: retries
     herr |-> CKR_OK,      \* pkcs11HandleGenericErrors: pkcs11Error
     found |-> 0,          \* pkcs11GetObjects: len(objects)
     handle |-> 0,         \* pkcs11GetHandle: objects[0]
     out |-> NilBytes,     \* the bytes the operation has got or returned
     exists |-> FALSE,     \* the boolean the operation returned
     data |-> NilBytes,    \* the operation's data or hash argument
     sig |-> NilBytes,     \* the operation's signature argument
     ret |-> NilErr,       \* the error the operation returned (pc = "done")
     events |-> << >>,     \* history: calls made by the running pkcs11Retry call
     rets |-> << >>,       \* history: what each pkcs11Retry call of the operation returned
     creates |-> 0,        \* history: create/generate calls issued by the operation
     calls |-> {},         \* history: the device calls issued by the operation
     handled |-> 0,        \* history: calls of pkcs11HandleGenericErrors in the operation
     captured |-> 0,       \* history: E.sessionHandle when the running pkcs11Retry call began
     opened |-> 0,         \* history: the handle the operation's latest OpenSession returned
     used |-> 0,           \* history: the handle of the latest object call since the
                           \* operation's latest CloseSession or OpenSession
     torn |-> 0,           \* history: the handle the operation's latest CloseSession closed
     pre |-> {},           \* history: the device's objects when the operation started
     stale |-> FALSE]      \* history: an object call went out on a session another
                           \* caller had closed

Idle(c) == frame[c].pc \in {"idle", "done"}

\* the first device call of the function a stage hands to pkcs11Retry
FirstCall(stage) ==
    CASE stage = "f" -> "f"
      [] stage \in {"privExists", "pubExists", "getHandle", "privQuery", "pubQuery",
                    "signHandle"} ->
            "FindObjectsInit"
      [] stage = "sign" -> "SignInit"
      [] stage = "getAttr" -> "GetAttributeValue"
      [] stage \in {"createPub", "createPriv"} -> "CreateObject"
      [] stage = "generate" -> "GenerateKeyPair"

Log(f, call, rc) ==
    [f EXCEPT !.events = Append(@, <<call, rc>>), !.calls = @ \cup {call}]

Done(f, e) == [f EXCEPT !.pc = "done", !.ret = e]

\* a Go run-time panic: the caller never returns
Panicked(f) == [f EXCEPT !.pc = "panicked", !.ret = Err("panic", "", CKR_OK, "", 0)]

\* enter stage st of the running operation: a fresh pkcs11Retry call
EnterStage(f, st) ==
    [f EXCEPT !.stage = st, !.pc = FirstCall(st), !.retries = 0, !.events = << >>,
              !.captured = sessionHandle]

(***************************************************************************)
(* HSM backend: the device behind the pkcs11 context                       *)
(***************************************************************************)
\* the device after NewECDSAPKCS11CryptoContext has set up the session
ReadyDev ==
    [initialized |-> TRUE,   \* C_Initialize done, C_Finalize not
     sessions |-> {1},       \* handles of the open sessions
     loggedIn |-> TRUE,      \* the user is logged in
     searching |-> FALSE,    \* a FindObjectsInit is not yet closed by FindObjectsFinal
     objects |-> {},         \* the token objects: [h, id, class, val]
     tornBy |-> "none"]      \* history: the caller that closed the session of E.sessionHandle

\* session state Ready: context initialized, E.sessionHandle open and logged in
Ready == dev.initialized /\ sessionHandle \in dev.sessions /\ dev.loggedIn

\* Close, line 53, has released the context: E.pkcs11Ctx.Destroy()
Destroyed == \E c \in Callers : frame[c].pc = "closed"

\* a call through a released context does not return: the library
\* dereferences the context it has freed
Crash == "crash"

\* the code the device state forces on a call, CKR_OK where the call is in order
Forced(call) ==
    IF Destroyed THEN Crash
    ELSE IF call = "Initialize"
    THEN IF dev.initialized THEN "CKR_CRYPTOKI_ALREADY_INITIALIZED" ELSE CKR_OK
    ELSE IF ~dev.initialized THEN "CKR_CRYPTOKI_NOT_INITIALIZED"
    ELSE IF call \in {"Finalize", "GetSlotList", "OpenSession"} THEN CKR_OK
    ELSE IF sessionHandle \notin dev.sessions THEN "CKR_SESSION_HANDLE_INVALID"
    ELSE IF call = "CloseSession" THEN CKR_OK
    ELSE IF call = "Login"
    THEN IF dev.loggedIn THEN "CKR_USER_ALREADY_LOGGED_IN" ELSE CKR_OK
    ELSE IF ~dev.loggedIn THEN "CKR_USER_NOT_LOGGED_IN"
    ELSE IF call = "FindObjectsInit" /\ dev.searching THEN "CKR_OPERATION_ACTIVE"
    ELSE IF call \in {"FindObjects", "FindObjectsFinal"} /\ ~dev.searching
    THEN "CKR_OPERATION_NOT_INITIALIZED"
    ELSE CKR_OK

\* the codes a call can return: the forced one, else success or, while the
\* fault budget lasts, a failure of any class
Results(call) ==
    IF Forced(call) # CKR_OK THEN {Forced(call)}
    ELSE {CKR_OK} \cup (IF faults < MaxFaults THEN FaultCodes ELSE {})

\* GetSlotList may also succeed with a list too short for E.slotNr
NoSlot == "no_slot"

SlotResults ==
    Results("GetSlotList") \cup
        (IF Forced("GetSlotList") = CKR_OK /\ faults < MaxFaults THEN {NoSlot} ELSE {})

Injected(call, rc) == IF rc # CKR_OK /\ Forced(call) = CKR_OK THEN 1 ELSE 0

\* a handle the device has not in use
NewHandle ==
    LET used == dev.sessions \cup {sessionHandle}
    IN  CHOOSE h \in 1..(Cardinality(used) + 1) : h \notin used

Matching(objects, id, class) == {o \in objects : o.id = id /\ o.class = class}

Min(a, b) == IF a < b THEN a ELSE b

\* a call that fails has no effect on the device
Effect(rc, d) == IF rc = CKR_OK THEN d ELSE dev

(***************************************************************************)
(* HSM backend: key material                                               *)
(***************************************************************************)
nistp256PrivkeyLength == 32

nistp256PubkeyLength == 64

nistp256XLength == 32

nistp256YLength == 32

NilUuid == Rep(16, 0)

\* SetKey, line 183: the order N of P-256, big-endian
curveOrder ==
    Rep(4, 255) \o Rep(4, 0) \o Rep(8, 255) \o
    <<188, 230, 250, 173, 167, 23, 158, 132, 243, 185, 202, 194, 252, 99, 37, 81>>

\* big.Int.Cmp(a, b) >= 0 for two big-endian values of one length
CmpGE(a, b) ==
    \/ a = b
    \/ \E i \in 1..Len(a) : a[i] > b[i] /\ \A j \in 1..(i - 1) : a[j] = b[j]

\* SetKey, lines 181 and 189-192: the curve is abstracted to an injective
\* stand-in for d -> d*G, giving the 32-byte X and Y
ScalarBaseMult(d) == [X |-> [i \in 1..Len(d) |-> d[Len(d) + 1 - i]], Y |-> d]

\* big.Int.Bytes: the value without its leading zero bytes
Bytes(b) ==
    IF \A i \in 1..Len(b) : b[i] = 0 THEN << >>
    ELSE SubSeq(b, CHOOSE i \in 1..Len(b) : b[i] # 0 /\ \A j \in 1..(i - 1) : b[j] = 0,
                Len(b))

\* big.Int.FillBytes into n bytes: the value padded with leading zero bytes
FillBytes(b, n) == Rep(n - Len(Bytes(b)), 0) \o Bytes(b)

\* a SetKey that writes X and Y without padding them
pubKeyBytesHSMUnpadded(d) ==
    <<4, nistp256PubkeyLength + 1, 4>> \o Bytes(ScalarBaseMult(d).X)
        \o Bytes(ScalarBaseMult(d).Y)

\* SetKey, lines 189-195
pubKeyBytesHSM(d) ==
    <<4, nistp256PubkeyLength + 1, 4>>
        \o FillBytes(ScalarBaseMult(d).X, nistp256XLength)
        \o FillBytes(ScalarBaseMult(d).Y, nistp256XLength)

\* ecdsa.PublicKey.IsOnCurve for the stand-in: the points d*G, 0 < d < N
IsOnCurve(X, Y) ==
    /\ Len(X) = nistp256XLength /\ Len(Y) = nistp256YLength
    /\ ScalarBaseMult(Y).X = X
    /\ Y # Rep(nistp256YLength, 0)
    /\ ~CmpGE(Y, curveOrder)

\* a GetPublicKey that checks the length and the curve, not the header
GetPublicKeyResultAnyHeader(value) ==
    LET pubKeyBytes == SliceFrom(value, 3) IN
    IF GoLen(value) = 0 THEN [err |-> "empty", out |-> NilBytes]
    ELSE IF Len(value) # nistp256PubkeyLength + 3 THEN [err |-> "length", out |-> NilBytes]
    ELSE IF ~IsOnCurve(SubSeq(pubKeyBytes, 1, nistp256XLength),
                       SubSeq(pubKeyBytes, nistp256XLength + 1,
                              nistp256XLength + nistp256YLength))
    THEN [err |-> "curve", out |-> NilBytes]
    ELSE [err |-> "", out |-> pubKeyBytes]

\* GetPublicKey, lines 81-111: the checks of the value the device returned,
\* and the bytes handed back
GetPublicKeyResult(value) ==
    LET expectedHeader == <<4, nistp256PubkeyLength + 1, 4>>
        expectedTotalLength == nistp256PubkeyLength + Len(expectedHeader)
        pubKeyBytes == SliceFrom(value, Len(expectedHeader))
    IN  IF GoLen(value) = 0 THEN [err |-> "empty", out |-> NilBytes]
        ELSE IF Len(value) # expectedTotalLength THEN [err |-> "length", out |-> NilBytes]
        ELSE IF SliceTo(value, Len(expectedHeader)) # expectedHeader
        THEN [err |-> "header", out |-> NilBytes]
        ELSE IF ~IsOnCurve(SubSeq(pubKeyBytes, 1, nistp256XLength),
                           SubSeq(pubKeyBytes, nistp256XLength + 1,
                                  nistp256XLength + nistp256YLength))
        THEN [err |-> "curve", out |-> NilBytes]
        ELSE [err |-> "", out |-> pubKeyBytes]

Scalar1 == Rep(31, 0) \o <<1>>

ScalarShort == Rep(31, 1)

\* the private value the device draws in GenerateKeyPair
ScalarGen == Rep(31, 0) \o <<3>>

KeyIds == {UuidA, NilUuid}

\* the scalars of the key import: zero, one, N - 1, N, and one of 31 bytes
ScalarZero == Rep(nistp256PrivkeyLength, 0)

ScalarTop == [curveOrder EXCEPT ![nistp256PrivkeyLength] = @ - 1]

ImportKeys == {ScalarZero, Scalar1, ScalarTop, curveOrder, ScalarShort}

PrivKeys == {Scalar1, ScalarShort, curveOrder}

Object(h, id, class, val) == [h |-> h, id |-> id, class |-> class, val |-> val]

\* sha256.Sum256, abstracted to an injective stand-in on the data of the
\* model (at most 32 bytes): the data, padded with 9s to 32 bytes
sha256Length == 32

Sum256(data) == Rep(sha256Length - Len(data), 9) \o data

\* the ECDSA signature the device makes of a hash with the private value d,
\* abstracted to an injective stand-in: r is the hash, s is d
DeviceSignature(d, hash) == hash \o d

\* ecdsa.Verify for the stand-ins: (r, s) is the signature of hash under the
\* private value of the public key (X, Y)
ecdsaVerify(pub, hash, r, s) == r = hash /\ s = pub.Y

\* pkcs11BytesToPublicKeyStruct, lines 771-787
pkcs11BytesToPublicKeyStruct(pubKeyBytes) ==
    IF GoLen(pubKeyBytes) # nistp256PubkeyLength
    THEN [err |-> "length", X |-> << >>, Y |-> << >>]
    ELSE LET X == SubSeq(pubKeyBytes, 1, nistp256XLength)
             Y == SubSeq(pubKeyBytes, nistp256XLength + 1, nistp256XLength + nistp256YLength)
         IN  IF ~IsOnCurve(X, Y) THEN [err |-> "curve", X |-> << >>, Y |-> << >>]
             ELSE [err |-> "", X |-> X, Y |-> Y]

\* a Verify that takes a signature for good when its first half is
VerifyLocallyROnly(pubkeyBytes, data, signature) ==
    LET pub == pkcs11BytesToPublicKeyStruct(pubkeyBytes) IN
    IF pub.err # "" THEN [ok |-> FALSE, err |-> pub.err]
    ELSE [ok |-> SliceTo(signature, nistp256RLength) = Sum256(data), err |-> ""]

\* Verify, lines 405-416: the public key is there
VerifyLocally(pubkeyBytes, data, signature) ==
    LET pub == pkcs11BytesToPublicKeyStruct(pubkeyBytes) IN
    IF pub.err # "" THEN [ok |-> FALSE, err |-> pub.err]
    ELSE [ok |-> ecdsaVerify(pub, Sum256(data), SliceTo(signature, nistp256RLength),
                             SliceFrom(signature, nistp256SLength)),
          err |-> ""]

(***************************************************************************)
(* HSM backend: control flow between two device calls                      *)
(***************************************************************************)
\* PrivateKeyExists/PublicKeyExists that never report a key
KeyExistsNever(found) == FALSE

\* PrivateKeyExists/PublicKeyExists, lines 123-131 and 140-148: the boolean
KeyExists(found) == found # 0

\* existence checks that never fail
KeyCheckFailsNever(e, found) == FALSE

\* PrivateKeyExists/PublicKeyExists, lines 120-131 and 137-148: the error
KeyCheckFails(e, found) == e # NilErr \/ found >= 2

\* existence checks that answer false whenever they return an error
KeyExistsReturnsFalseOnError(e, found) == e = NilErr /\ found = 1

\* PrivateKeyExists/PublicKeyExists, lines 120-131 and 137-148: the boolean
\* returned next to the error
KeyExistsReturns(e, found) ==
    IF e # NilErr THEN TRUE
    ELSE IF found = 1 THEN TRUE
    ELSE IF found = 0 THEN FALSE
    ELSE TRUE

\* PrivateKeyExists/PublicKeyExists, lines 120-131 and 137-148: the error
\* returned
KeyExistsErr(where, e, found) ==
    IF e # NilErr THEN (IF where = "privQuery" THEN ApiErr(where, e) ELSE e)
    ELSE IF found \in {0, 1} THEN NilErr
    ELSE ApiErr("twoOrMore", NilErr)

\* SetKey, lines 176-219, and GenerateKey, lines 250-267: both keys are absent
AfterExistenceChecks(f) ==
    IF f.api = "SetKey"
    THEN IF CmpGE(f.priv, curveOrder)
         THEN Done(f, ApiErr("order", NilErr))
         ELSE EnterStage(f, "createPub")
    ELSE EnterStage(f, "generate")

\* GetPublicKey returns out and e: to its caller, or into Verify, lines
\* 400-416
GetPublicKeyReturns(f, out, e) ==
    IF f.api # "Verify" THEN Done([f EXCEPT !.out = out], e)
    ELSE IF e # NilErr THEN Done([f EXCEPT !.out = NilBytes], ApiErr("getPublicKey", e))
    ELSE LET v == VerifyLocally(out, f.data, f.sig) IN
         IF v.err # "" THEN Done([f EXCEPT !.out = NilBytes], ApiErr(v.err, NilErr))
         ELSE Done([f EXCEPT !.out = NilBytes, !.exists = v.ok], NilErr)

\* a SignHash that hands on whatever the device gave it
SignatureLengthAny(signature) == FALSE

\* SignHash, line 381
SignatureLengthWrong(signature) == GoLen(signature) # nistp256SignatureLength

\* the statement after a pkcs11Retry call that returned e
RetryReturns(f0, e) ==
    LET f == [f0 EXCEPT !.rets = Append(@, <<f0.stage, e.kind>>)] IN
    CASE f.api = "pkcs11Retry" -> Done(f, e)
      [] f.stage = "privExists" ->
            IF KeyCheckFails(e, f.found) THEN Done(f, ApiErr("privCheck", e))
            ELSE IF KeyExists(f.found) THEN Done(f, ApiErr("privExists", NilErr))
            ELSE EnterStage(f, "pubExists")
      [] f.stage = "pubExists" ->
            IF KeyCheckFails(e, f.found) THEN Done(f, ApiErr("pubCheck", e))
            ELSE IF KeyExists(f.found) THEN Done(f, ApiErr("pubExists", NilErr))
            ELSE AfterExistenceChecks(f)
      [] f.stage = "createPub" ->
            IF e # NilErr THEN Done(f, ApiErr("setPub", e))
            ELSE EnterStage(f, "createPriv")
      [] f.stage = "createPriv" ->
            IF e # NilErr THEN Done(f, ApiErr("setPriv", e)) ELSE Done(f, NilErr)
      [] f.stage = "generate" ->
            IF e # NilErr THEN Done(f, ApiErr("generate", e)) ELSE Done(f, NilErr)
      [] f.stage \in {"privQuery", "pubQuery"} ->
            Done([f EXCEPT !.exists = KeyExistsReturns(e, f.found)],
                 KeyExistsErr(f.stage, e, f.found))
      [] f.stage = "getHandle" ->
            IF e # NilErr THEN GetPublicKeyReturns(f, NilBytes, e)
            ELSE IF f.found > 1
            THEN GetPublicKeyReturns(f, NilBytes, ApiErr("moreThanOne", NilErr))
            ELSE IF f.found = 0
            THEN GetPublicKeyReturns(f, NilBytes, ApiErr("notFound", NilErr))
            ELSE EnterStage(f, "getAttr")
      [] f.stage = "getAttr" ->
            IF e # NilErr THEN GetPublicKeyReturns(f, NilBytes, e)
            ELSE LET r == GetPublicKeyResult(f.out) IN
                 IF r.err # "" THEN GetPublicKeyReturns(f, NilBytes, ApiErr(r.err, NilErr))
                 ELSE GetPublicKeyReturns(f, r.out, NilErr)
      [] f.stage = "signHandle" ->
            IF e # NilErr THEN Done(f, e)
            ELSE IF f.found > 1 THEN Done(f, ApiErr("moreThanOne", NilErr))
            ELSE IF f.found = 0 THEN Done(f, ApiErr("notFound", NilErr))
            ELSE EnterStage(f, "sign")
      [] f.stage = "sign" ->
            IF e # NilErr THEN Done([f EXCEPT !.out = NilBytes], e)
            ELSE IF SignatureLengthWrong(f.out)
            THEN Done([f EXCEPT !.out = NilBytes], ApiErr("siglen", NilErr))
            ELSE Done(f, NilErr)

\* pkcs11HandleGenericErrors returns e: to its caller, or into pkcs11Retry,
\* lines 689-697
HandlerReturns(f, e) ==
    IF f.api = "pkcs11HandleGenericErrors" THEN Done(f, e)
    ELSE IF e # NilErr THEN RetryReturns(f, UnfixableErr(e))
    ELSE [f EXCEPT !.retries = @ + 1, !.pc = FirstCall(f.stage)]

\* a reset that takes the teardown for the whole of it
TeardownReturnsNoSetup(f, e) == HandlerReturns(f, e)

\* Close, lines 48-55: the context is destroyed after a teardown that went
\* through, and no call can follow
CloseReturns(f, e) == IF e # NilErr THEN Done(f, e) ELSE [Done(f, NilErr) EXCEPT !.pc = "closed"]

\* pkcs11TeardownSession returns e: into Close, or into
\* pkcs11HandleGenericErrors, lines 586-590
TeardownReturns(f, e) ==
    IF f.api = "Close" THEN CloseReturns(f, e)
    ELSE IF e # NilErr THEN HandlerReturns(f, e) ELSE [f EXCEPT !.pc = "Initialize"]

\* a handler that takes a session setup for done whatever it returned
SetupReturnsIgnored(f, e) == HandlerReturns(f, NilErr)

\* pkcs11HandleGenericErrors, lines 590-594
SetupReturns(f, e) == HandlerReturns(f, e)

\* pkcs11HandleGenericErrors, lines 538-667, up to its first device call
HandlerEnter(f0, code) ==
    LET f == [f0 EXCEPT !.herr = code, !.handled = @ + 1] IN
    CASE HandlerCase(code) = "ok" -> HandlerReturns(f, NilErr)
      [] HandlerCase(code) \in {"wait", "wait_reset"} -> [f EXCEPT !.pc = "Sleep"]
      [] HandlerCase(code) = "reset" -> [f EXCEPT !.pc = "Logout"]
      [] HandlerCase(code) = "unfixable" -> HandlerReturns(f, Pkcs11Err(code))
      [] HandlerCase(code) = "unknown" -> HandlerReturns(f, DontKnowErr(code))

\* a loop that has no bound
GaveUpNever(retries) == FALSE

\* a loop that stops one retry short
GaveUpEarly(retries) == retries + 1 >= pkcs11Retries

\* pkcs11Retry, line 682
GaveUp(retries) == retries >= pkcs11Retries

\* pkcs11Retry, lines 678-695: f() has returned rc
AfterF(f0, rc) ==
    LET f == Log(f0, "f", rc) IN
    IF rc = CKR_OK THEN RetryReturns(f, NilErr)
    ELSE IF GaveUp(f.retries) THEN RetryReturns(f, GaveUpErr(f.retries, rc))
    ELSE IF rc = NotPkcs11 THEN RetryReturns(f, NotPkcs11Err)
    ELSE HandlerEnter(f, rc)

(***************************************************************************)
(* HSM backend: actions                                                    *)
(***************************************************************************)
\* the device calls of the operations: they bear E.sessionHandle
ObjectCalls ==
    {"FindObjectsInit", "FindObjects", "FindObjectsFinal", "CreateObject", "GenerateKeyPair",
     "GetAttributeValue", "SignInit", "Sign"}

\* caller c issues the call on a session that another caller has closed
Stale(c, call) ==
    /\ call \in ObjectCalls
    /\ ~(dev.initialized /\ sessionHandle \in dev.sessions)
    /\ dev.tornBy \notin {c, "none"}

\* closures that bear the handle there was when pkcs11Retry was called
SessionHandleCaptured(f) == f.captured

\* lines 72, 214, 221, 261, 365, 370, 498, 502, 507: the closures handed to
\* pkcs11Retry read E.sessionHandle when they make their call
SessionHandleOf(f) == sessionHandle

\* the frame after a device call: an object call has borne a session handle
Bearing(f0, call, f) ==
    IF call \in ObjectCalls THEN [f EXCEPT !.used = SessionHandleOf(f0)] ELSE f

\* the state after caller c's device call returned rc
Step(c, call, rc, d, h, f) ==
    /\ dev' = Effect(rc, d)
    /\ sessionHandle' = h
    /\ faults' = faults + Injected(call, rc)
    /\ frame' = [frame EXCEPT ![c] =
                    IF rc = Crash THEN Panicked(Log(frame[c], call, rc))
                    ELSE IF Stale(c, call)
                    THEN [Bearing(frame[c], call, f) EXCEPT !.stale = TRUE]
                    ELSE Bearing(frame[c], call, f)]
    /\ UNCHANGED <<pkcs11Retries, pvars, cvars>>

Starts(c, f) ==
    /\ frame' = [frame EXCEPT ![c] = f]
    /\ UNCHANGED <<sessionHandle, pkcs11Retries, dev, faults, pvars, cvars>>

\* a call of pkcs11Retry(E.pkcs11Retries, E.pkcs11RetryDelay, f) for a function f
\* whose results the environment chooses
CallRetry(c) ==
    /\ Idle(c)
    /\ Starts(c, EnterStage([IdleFrame EXCEPT !.api = "pkcs11Retry"], "f"))

\* pkcs11Retry, line 678, for that f
InvokeF(c) ==
    /\ frame[c].pc = "f"
    /\ \E rc \in FResults :
        /\ frame' = [frame EXCEPT ![c] = AfterF(frame[c], rc)]
        /\ UNCHANGED <<sessionHandle, pkcs11Retries, dev, faults, pvars, cvars>>

\* a call of pkcs11HandleGenericErrors(code, E.pkcs11RetryDelay)
CallHandler(c, code) ==
    /\ Idle(c)
    /\ Starts(c, HandlerEnter([IdleFrame EXCEPT !.api = "pkcs11HandleGenericErrors"],
                              code))

\* Close, lines 46-48
Close(c) ==
    /\ Idle(c)
    /\ Starts(c, [IdleFrame EXCEPT !.api = "Close", !.pc = "Logout"])

\* pkcs11HandleGenericErrors, lines 566-573
Sleep(c) ==
    /\ frame[c].pc = "Sleep"
    /\ LET f == Log(frame[c], "Sleep", CKR_OK) IN
        frame' = [frame EXCEPT ![c] =
                    IF HandlerCase(f.herr) = "wait"
                    THEN HandlerReturns(f, NilErr)
                    ELSE [f EXCEPT !.pc = "Logout"]]
    /\ UNCHANGED <<sessionHandle, pkcs11Retries, dev, faults, pvars, cvars>>

\* pkcs11TeardownSession, lines 748-751
Logout(c) ==
    /\ frame[c].pc = "Logout"
    /\ \E rc \in Results("Logout") :
        LET f == Log(frame[c], "Logout", rc) IN
        Step(c, "Logout", rc, [dev EXCEPT !.loggedIn = FALSE], sessionHandle,
             IF rc = CKR_OK THEN [f EXCEPT !.pc = "CloseSession"]
             ELSE TeardownReturns(f, TeardownErr("Logout", rc)))

\* pkcs11TeardownSession, lines 754-757
CloseSession(c) ==
    /\ frame[c].pc = "CloseSession"
    /\ \E rc \in Results("CloseSession") :
        LET f == Log(frame[c], "CloseSession", rc) IN
        Step(c, "CloseSession", rc,
             [dev EXCEPT !.sessions = @ \ {sessionHandle}, !.loggedIn = FALSE,
                         !.searching = FALSE, !.tornBy = c],
             sessionHandle,
             IF rc = CKR_OK THEN [f EXCEPT !.pc = "Finalize", !.torn = sessionHandle, !.used = 0]
             ELSE TeardownReturns(f, TeardownErr("CloseSession", rc)))

\* pkcs11TeardownSession, lines 760-765
Finalize(c) ==
    /\ frame[c].pc = "Finalize"
    /\ \E rc \in Results("Finalize") :
        LET f == Log(frame[c], "Finalize", rc) IN
        Step(c, "Finalize", rc,
             [dev EXCEPT !.initialized = FALSE, !.sessions = {}, !.loggedIn = FALSE,
                         !.searching = FALSE, !.tornBy = c],
             sessionHandle,
             IF rc = CKR_OK THEN TeardownReturns(f, NilErr)
             ELSE TeardownReturns(f, TeardownErr("Finalize", rc)))

\* pkcs11SetupSession, lines 708-718
Initialize(c) ==
    /\ frame[c].pc = "Initialize"
    /\ \E rc \in Results("Initialize") :
        LET f == Log(frame[c], "Initialize", rc) IN
        Step(c, "Initialize", rc, [dev EXCEPT !.initialized = TRUE], sessionHandle,
             IF rc \in {CKR_OK, "CKR_CRYPTOKI_ALREADY_INITIALIZED"}
             THEN [f EXCEPT !.pc = "GetSlotList"]
             ELSE SetupReturns(f, SetupErr("Initialize", rc)))

\* pkcs11SetupSession, lines 721-727: the list, and indexing it with E.slotNr
GetSlotList(c) ==
    /\ frame[c].pc = "GetSlotList"
    /\ \E rc \in SlotResults :
        LET f == Log(frame[c], "GetSlotList", rc) IN
        Step(c, "GetSlotList", rc, dev, sessionHandle,
             IF rc = CKR_OK THEN [f EXCEPT !.pc = "OpenSession"]
             ELSE IF rc = NoSlot THEN Panicked(f)
             ELSE SetupReturns(f, SetupErr("GetSlotList", rc)))

\* pkcs11SetupSession, lines 727-730: E.sessionHandle takes what the call
\* returns, the zero handle where it fails
OpenSession(c) ==
    /\ frame[c].pc = "OpenSession"
    /\ \E rc \in Results("OpenSession") :
        LET f == Log(frame[c], "OpenSession", rc) IN
        Step(c, "OpenSession", rc,
             [dev EXCEPT !.sessions = @ \cup {NewHandle}, !.tornBy = "none"],
             IF rc = CKR_OK THEN NewHandle ELSE 0,
             IF rc = CKR_OK THEN [f EXCEPT !.pc = "Login", !.opened = NewHandle, !.used = 0]
             ELSE SetupReturns(f, SetupErr("OpenSession", rc)))

\* pkcs11SetupSession, lines 733-737
Login(c) ==
    /\ frame[c].pc = "Login"
    /\ \E rc \in Results("Login") :
        LET f == Log(frame[c], "Login", rc) IN
        Step(c, "Login", rc, [dev EXCEPT !.loggedIn = TRUE], sessionHandle,
             IF rc = CKR_OK THEN SetupReturns(f, NilErr)
             ELSE SetupReturns(f, SetupErr("Login", rc)))

\* SetKey, lines 153-161
SetKey(c, id, privKeyBytes) ==
    /\ Idle(c)
    /\ LET f == [IdleFrame EXCEPT !.api = "SetKey", !.id = id, !.priv = privKeyBytes,
                                  !.pre = dev.objects]
       IN  Starts(c, IF GoLen(privKeyBytes) # nistp256PrivkeyLength
                     THEN Done(f, ApiErr("len", NilErr))
                     ELSE IF id = NilUuid THEN Done(f, ApiErr("nil", NilErr))
                     ELSE EnterStage(f, "privExists"))

\* GenerateKey, lines 232-235
GenerateKey(c, id) ==
    /\ Idle(c)
    /\ Starts(c, EnterStage([IdleFrame EXCEPT !.api = "GenerateKey", !.id = id,
                                              !.pre = dev.objects], "privExists"))

\* GetPublicKey, lines 59-60
GetPublicKey(c, id) ==
    /\ Idle(c)
    /\ Starts(c, EnterStage([IdleFrame EXCEPT !.api = "GetPublicKey", !.id = id,
                                              !.pre = dev.objects], "getHandle"))

\* the class an existence check or a CreateObject of this stage is about
StageClass(stage) ==
    IF stage \in {"privExists", "createPriv", "privQuery", "signHandle"}
    THEN "priv" ELSE "pub"

\* SignHash, lines 353-358
SignHash(c, id, hash) ==
    /\ Idle(c)
    /\ LET f == [IdleFrame EXCEPT !.api = "SignHash", !.id = id, !.data = hash,
                                  !.pre = dev.objects]
       IN  Starts(c, IF GoLen(hash) # sha256Length
                     THEN Done(f, ApiErr("hashsize", NilErr))
                     ELSE EnterStage(f, "signHandle"))

\* Sign, lines 343-349: the hash of the data goes to SignHash, whose length
\* check it passes
Sign(c, id, data) ==
    /\ Idle(c)
    /\ LET f == [IdleFrame EXCEPT !.api = "Sign", !.id = id, !.pre = dev.objects]
       IN  Starts(c, IF GoLen(data) = 0
                     THEN Done(f, ApiErr("empty", NilErr))
                     ELSE IF Len(Sum256(data)) # sha256Length
                     THEN Done(f, ApiErr("hashsize", NilErr))
                     ELSE EnterStage([f EXCEPT !.data = Sum256(data)], "signHandle"))

\* Verify, lines 391-400
BackendVerify(c, id, data, signature) ==
    /\ Idle(c)
    /\ LET f == [IdleFrame EXCEPT !.api = "Verify", !.id = id, !.data = data,
                                  !.sig = signature, !.pre = dev.objects]
       IN  Starts(c, IF GoLen(data) = 0
                     THEN Done(f, ApiErr("empty", NilErr))
                     ELSE IF GoLen(signature) # nistp256SignatureLength
                     THEN Done(f, ApiErr("siglen", NilErr))
                     ELSE EnterStage(f, "getHandle"))

\* PrivateKeyExists, lines 118-119
PrivateKeyExists(c, id) ==
    /\ Idle(c)
    /\ Starts(c, EnterStage([IdleFrame EXCEPT !.api = "PrivateKeyExists", !.id = id,
                                              !.pre = dev.objects], "privQuery"))

\* PublicKeyExists, lines 134-135
PublicKeyExists(c, id) ==
    /\ Idle(c)
    /\ Starts(c, EnterStage([IdleFrame EXCEPT !.api = "PublicKeyExists", !.id = id,
                                              !.pre = dev.objects], "pubQuery"))

\* pkcs11GetObjects, lines 498-501
FindObjectsInit(c) ==
    /\ frame[c].pc = "FindObjectsInit"
    /\ \E rc \in Results("FindObjectsInit") :
        LET f == Log(frame[c], "FindObjectsInit", rc) IN
        Step(c, "FindObjectsInit", rc, [dev EXCEPT !.searching = TRUE], sessionHandle,
             IF rc = CKR_OK THEN [f EXCEPT !.pc = "FindObjects"] ELSE AfterF(f, rc))

\* the max the callers of pkcs11GetObjects pass: lines 119, 135 and 522
\* a pkcs11GetHandle that asks the search for one object
MaxObjectsOne(stage) == IF stage \in {"getHandle", "signHandle"} THEN 1 ELSE 5

MaxObjects(stage) == IF stage \in {"getHandle", "signHandle"} THEN 2 ELSE 5

\* pkcs11GetObjects, lines 502-505: up to max matching objects, and the
\* handle of the first of them
FindObjects(c) ==
    /\ frame[c].pc = "FindObjects"
    /\ \E rc \in Results("FindObjects") :
        LET f == Log(frame[c], "FindObjects", rc)
            ms == Matching(dev.objects, f.id, StageClass(f.stage))
            n == Cardinality(ms)
            first == IF n = 0 \/ f.stage \notin {"getHandle", "signHandle"} THEN 0
                     ELSE CHOOSE h \in {o.h : o \in ms} : \A o \in ms : h <= o.h
        IN
        Step(c, "FindObjects", rc, dev, sessionHandle,
             IF rc = CKR_OK
             THEN [f EXCEPT !.pc = "FindObjectsFinal",
                            !.found = Min(n, MaxObjects(f.stage)), !.handle = first]
             ELSE AfterF(f, rc))

\* pkcs11GetObjects, lines 507-510
FindObjectsFinal(c) ==
    /\ frame[c].pc = "FindObjectsFinal"
    /\ \E rc \in Results("FindObjectsFinal") :
        LET f == Log(frame[c], "FindObjectsFinal", rc) IN
        Step(c, "FindObjectsFinal", rc, [dev EXCEPT !.searching = FALSE], sessionHandle,
             AfterF(f, rc))

\* SetKey, lines 213-216 and 220-223
CreateObject(c) ==
    /\ frame[c].pc = "CreateObject"
    /\ \E rc \in Results("CreateObject") :
        LET f == [Log(frame[c], "CreateObject", rc) EXCEPT !.creates = @ + 1]
            h == Cardinality(dev.objects) + 1
            o == IF f.stage = "createPub"
                 THEN Object(h, f.id, "pub", pubKeyBytesHSM(f.priv))
                 ELSE Object(h, f.id, "priv", f.priv)
        IN
        Step(c, "CreateObject", rc, [dev EXCEPT !.objects = @ \cup {o}], sessionHandle,
             AfterF(f, rc))

\* GetPublicKey, lines 72-73: the CKA_EC_POINT of the object of the handle
GetAttributeValue(c) ==
    /\ frame[c].pc = "GetAttributeValue"
    /\ LET os == {o \in dev.objects : o.h = frame[c].handle} IN
       \E rc \in (IF os = {} THEN {"CKR_OBJECT_HANDLE_INVALID"}
                   ELSE Results("GetAttributeValue")) :
        LET f == Log(frame[c], "GetAttributeValue", rc) IN
        Step(c, "GetAttributeValue", rc, dev, sessionHandle,
             AfterF(IF rc = CKR_OK
                    THEN [f EXCEPT !.out = (CHOOSE o \in os : TRUE).val]
                    ELSE f, rc))

\* SignHash, lines 365-368
SignInit(c) ==
    /\ frame[c].pc = "SignInit"
    /\ LET os == {o \in dev.objects : o.h = frame[c].handle} IN
       \E rc \in (IF os = {} THEN {"CKR_KEY_HANDLE_INVALID"} ELSE Results("SignInit")) :
        LET f == Log(frame[c], "SignInit", rc) IN
        Step(c, "SignInit", rc, dev, sessionHandle,
             IF rc = CKR_OK THEN [f EXCEPT !.pc = "Sign"] ELSE AfterF(f, rc))

\* the device answers C_Sign with a signature that is one byte short
ShortSignature == "short_signature"

\* SignHash, lines 370-375: the device signs the hash with the key of the
\* handle; while the fault budget lasts it may also return, with CKR_OK, a
\* signature of another length
CtxSign(c) ==
    /\ frame[c].pc = "Sign"
    /\ LET d == (CHOOSE o \in dev.objects : o.h = frame[c].handle).val
           signature == DeviceSignature(d, frame[c].data)
       IN
       \E rc \in Results("Sign") \cup
                  (IF Forced("Sign") = CKR_OK /\ faults < MaxFaults
                   THEN {ShortSignature} ELSE {}) :
        LET f == Log(frame[c], "Sign", rc) IN
        Step(c, "Sign", rc, dev, sessionHandle,
             IF rc = CKR_OK THEN AfterF([f EXCEPT !.out = signature], CKR_OK)
             ELSE IF rc = ShortSignature
             THEN AfterF([f EXCEPT !.out = SliceTo(signature, Len(signature) - 1)], CKR_OK)
             ELSE AfterF(f, rc))

\* GenerateKey, lines 260-267
GenerateKeyPair(c) ==
    /\ frame[c].pc = "GenerateKeyPair"
    /\ \E rc \in Results("GenerateKeyPair") :
        LET f == [Log(frame[c], "GenerateKeyPair", rc) EXCEPT !.creates = @ + 1]
            h == Cardinality(dev.objects) + 1
            pair == {Object(h, f.id, "pub", pubKeyBytesHSM(ScalarGen)),
                     Object(h + 1, f.id, "priv", ScalarGen)}
        IN
        Step(c, "GenerateKeyPair", rc, [dev EXCEPT !.objects = @ \cup pair],
             sessionHandle, AfterF(f, rc))

(***************************************************************************)
(* Specifications                                                          *)
(***************************************************************************)
\* NewProtocol: no signature saved, nothing signed or returned yet
ProtocolInit ==
    /\ Signatures = << >>
    /\ issued = {}
    /\ returned = << >>
    /\ lastCall = [op |-> "new", err |-> "", ok |-> TRUE, called |-> FALSE,
                   tampered |-> FALSE, sigLen |-> 0, gotPacket |-> FALSE,
                   resolved |-> FALSE]
    /\ signing = [c \in Callers |-> IdleSigner]
    /\ codecCall = NoCall

\* NewECDSAPKCS11CryptoContext, lines 30-43, has returned the backend: the
\* session is set up, and no caller is inside an operation
BackendInit(retries) ==
    /\ sessionHandle = 1
    /\ pkcs11Retries = retries
    /\ dev = ReadyDev
    /\ faults = 0
    /\ frame = [c \in Callers |-> IdleFrame]

\* the Protocol engine over an ideal Signer
Init == ProtocolInit /\ BackendInit(MaxRetries)

Next ==
    \/ \E in \in SignInputs :
          SignHashExtended(in.name, in.hash, in.protocol, in.hint, in.outcome)
    \/ \E name \in Names, in \in VerifyInputs : Verify(name, in)

Spec == Init /\ [][Next]_vars

\* the Protocol engine over an ideal Signer, with a chain state that was
\* loaded into the exported Signatures field: nothing, a signature, or an
\* entry of 63 bytes
SavedSignature == Rep(nistp256SignatureLength, 5)

LoadedSignatures ==
    {<< >>,
     [i \in {UuidA} |-> SavedSignature],
     [i \in {UuidA} |-> SliceTo(SavedSignature, nistp256SignatureLength - 1)],
     [i \in Uuids |-> IF i = UuidA THEN << >> ELSE SavedSignature]}

InitLoaded ==
    /\ Signatures \in LoadedSignatures
    /\ issued = {}
    /\ returned = << >>
    /\ lastCall = [op |-> "new", err |-> "", ok |-> TRUE, called |-> FALSE,
                   tampered |-> FALSE, sigLen |-> 0, gotPacket |-> FALSE,
                   resolved |-> FALSE]
    /\ signing = [c \in Callers |-> IdleSigner]
    /\ codecCall = NoCall
    /\ BackendInit(MaxRetries)

SpecLoaded == InitLoaded /\ [][Next]_vars

\* the Protocol engine with every caller inside SignHashExtended at once
NextChain ==
    \E c \in Callers :
        \/ \E in \in ChainInputs :
              SignHashExtendedLoads(c, in.name, in.hash, in.protocol, Binary)
        \/ \E outcome \in {"ok", "error"} : signCallsSigner(c, outcome)
        \/ signSaves(c)

SpecChain == Init /\ [][NextChain]_vars

\* the Retry Engine, one caller, over a function whose results the
\* environment chooses
InitRetry == ProtocolInit /\ \E n \in 0..MaxRetries : BackendInit(n)

NextRetry ==
    \E c \in SeqCallers :
        \/ CallRetry(c)
        \/ InvokeF(c)
        \/ Sleep(c)
        \/ Logout(c)
        \/ CloseSession(c)
        \/ Finalize(c)
        \/ Initialize(c)
        \/ GetSlotList(c)
        \/ OpenSession(c)
        \/ Login(c)

SpecRetry == InitRetry /\ [][NextRetry]_vars

\* the same where f, the wait and the device calls return: a pkcs11Retry call
\* that is under way takes its next step
RetrySteps ==
    \E c \in SeqCallers :
        \/ InvokeF(c)
        \/ Sleep(c)
        \/ Logout(c)
        \/ CloseSession(c)
        \/ Finalize(c)
        \/ Initialize(c)
        \/ GetSlotList(c)
        \/ OpenSession(c)
        \/ Login(c)

SpecRetryLive == SpecRetry /\ WF_vars(RetrySteps)

\* the error handler called on its own, one caller, with every return code
InitHandler == ProtocolInit /\ BackendInit(MaxRetries)

NextHandler ==
    \E c \in SeqCallers :
        \/ \E code \in {CKR_OK} \cup ListedCodes \cup UnlistedCodes : CallHandler(c, code)
        \/ Sleep(c)
        \/ Logout(c)
        \/ CloseSession(c)
        \/ Finalize(c)
        \/ Initialize(c)
        \/ GetSlotList(c)
        \/ OpenSession(c)
        \/ Login(c)

SpecHandler == InitHandler /\ [][NextHandler]_vars

\* SetKey and GenerateKey called one after the other by one caller
InitKeys == ProtocolInit /\ \E n \in {0, MaxRetries} : BackendInit(n)

NextKeys ==
    \E c \in SeqCallers :
        \/ \E id \in KeyIds, d \in PrivKeys : SetKey(c, id, d)
        \/ \E id \in KeyIds : GenerateKey(c, id)
        \/ FindObjectsInit(c)
        \/ FindObjects(c)
        \/ FindObjectsFinal(c)
        \/ CreateObject(c)
        \/ GenerateKeyPair(c)
        \/ Sleep(c)
        \/ Logout(c)
        \/ CloseSession(c)
        \/ Finalize(c)
        \/ Initialize(c)
        \/ GetSlotList(c)
        \/ OpenSession(c)
        \/ Login(c)

SpecKeys == InitKeys /\ [][NextKeys]_vars

\* one SetKey or GenerateKey by every caller, all at once, with one retry
\* configured: the backend has no lock, so the callers' device calls
\* interleave.  The environment lets no device call fail; the calls that fail
\* are those the callers make fail for each other (a search begun while the
\* other's is open, a call on a session the other has closed), all of them
\* with Session-broken codes, so that no caller ever waits.
InitConc ==
    /\ ProtocolInit
    /\ sessionHandle = 1
    /\ pkcs11Retries = 1
    /\ dev = ReadyDev
    /\ faults = MaxFaults
    /\ frame = [c \in Callers |-> IdleFrame]

OneSetKey(c) ==
    /\ frame[c].pc = "idle"
    /\ SetKey(c, UuidA, Scalar1)

OneGenerateKey(c) ==
    /\ frame[c].pc = "idle"
    /\ GenerateKey(c, UuidA)

NextConc ==
    \E c \in Callers :
        \/ OneSetKey(c)
        \/ OneGenerateKey(c)
        \/ FindObjectsInit(c)
        \/ FindObjects(c)
        \/ FindObjectsFinal(c)
        \/ CreateObject(c)
        \/ GenerateKeyPair(c)
        \/ Logout(c)
        \/ CloseSession(c)
        \/ Finalize(c)
        \/ Initialize(c)
        \/ GetSlotList(c)
        \/ OpenSession(c)
        \/ Login(c)

SpecConc == InitConc /\ [][NextConc]_vars

\* the Protocol engine signing, and CheckChainLink on what it returned
NextLink ==
    \/ \E in \in LinkInputs :
          SignHashExtended(in.name, in.hash, in.protocol, Binary, "ok")
    \/ \E i, j \in 1..MaxSigns, mod \in LinkMods :
          CallCheckChainLink(i, j, mod.prev, mod.next)

SpecLink == Init /\ [][NextLink]_vars

\* Close, and the error handler called with the codes that make it reset the
\* session, by one caller
ResetCodes ==
    {"CKR_SESSION_HANDLE_INVALID", "CKR_USER_NOT_LOGGED_IN", "CKR_DEVICE_REMOVED",
     "CKR_CRYPTOKI_NOT_INITIALIZED"}

NextClose ==
    \E c \in SeqCallers :
        \/ Close(c)
        \/ \E code \in ResetCodes : CallHandler(c, code)
        \/ Sleep(c)
        \/ Logout(c)
        \/ CloseSession(c)
        \/ Finalize(c)
        \/ Initialize(c)
        \/ GetSlotList(c)
        \/ OpenSession(c)
        \/ Login(c)

SpecClose == InitHandler /\ [][NextClose]_vars

\* a Close by one caller and, before or after it, a SetKey by another: the
\* two never run side by side
Quiet(c) == frame[c].pc \in {"idle", "done", "closed", "panicked"}

CloseAlone(c) ==
    /\ \A d \in Callers \ {c} : Quiet(d)
    /\ Close(c)

SetKeyAlone(c) ==
    /\ \A d \in Callers \ {c} : Quiet(d)
    /\ SetKey(c, UuidA, Scalar1)

NextClosed ==
    \/ CloseAlone("c1")
    \/ SetKeyAlone("c2")
    \/ \E c \in Callers :
          \/ FindObjectsInit(c)
          \/ FindObjects(c)
          \/ FindObjectsFinal(c)
          \/ CreateObject(c)
          \/ Sleep(c)
          \/ Logout(c)
          \/ CloseSession(c)
          \/ Finalize(c)
          \/ Initialize(c)
          \/ GetSlotList(c)
          \/ OpenSession(c)
          \/ Login(c)

SpecClosed == InitHandler /\ [][NextClosed]_vars

\* what a device can hold when the backend is handed to it: nothing, a key
\* pair, more than one key of a class for one Identity, more than the search
\* returns
DeviceContents ==
    LET Keys(n, id, class) == {Object(h, id, class, Scalar1) : h \in 1..n} IN
    {{}, Keys(1, UuidA, "pub"), Keys(1, UuidA, "priv"), Keys(2, UuidA, "priv"),
     Keys(2, UuidA, "pub"), Keys(6, UuidA, "priv"),
     Keys(1, UuidA, "priv") \cup {Object(2, UuidA, "pub", pubKeyBytesHSM(Scalar1))},
     Keys(1, UuidB, "priv") \cup {Object(2, UuidB, "pub", pubKeyBytesHSM(Scalar1))}}

\* the CKA_EC_POINT values a public key object can hold: the encoding of a
\* point, the same one byte short, one byte long, with each header byte
\* changed, of a point off the curve, and nothing
GoodPoint == pubKeyBytesHSM(Scalar1)

PointValues ==
    {GoodPoint, pubKeyBytesHSM(ScalarTop), SliceTo(GoodPoint, 66), GoodPoint \o <<0>>,
     << >>, SliceFrom(GoodPoint, 3), pubKeyBytesHSM(ScalarZero),
     [GoodPoint EXCEPT ![67] = 2]}
    \cup {[GoodPoint EXCEPT ![i] = 3] : i \in 1..3}

\* GetPublicKey called by one caller on a device that holds one public key
InitRead ==
    /\ ProtocolInit
    /\ sessionHandle = 1
    /\ pkcs11Retries \in {0, 1}
    /\ dev \in {[ReadyDev EXCEPT !.objects = {Object(1, UuidA, "pub", v)}] :
                    v \in PointValues}
    /\ faults = 0
    /\ frame = [c \in Callers |-> IdleFrame]

NextRead ==
    \E c \in SeqCallers :
        \/ \E id \in Uuids : GetPublicKey(c, id)
        \/ FindObjectsInit(c)
        \/ FindObjects(c)
        \/ FindObjectsFinal(c)
        \/ GetAttributeValue(c)
        \/ Sleep(c)
        \/ Logout(c)
        \/ CloseSession(c)
        \/ Finalize(c)
        \/ Initialize(c)
        \/ GetSlotList(c)
        \/ OpenSession(c)
        \/ Login(c)

SpecRead == InitRead /\ [][NextRead]_vars

\* PrivateKeyExists and PublicKeyExists called one after the other by one caller
InitExists ==
    /\ ProtocolInit
    /\ sessionHandle = 1
    /\ pkcs11Retries \in {0, 1}
    /\ dev \in {[ReadyDev EXCEPT !.objects = os] : os \in DeviceContents}
    /\ faults = 0
    /\ frame = [c \in Callers |-> IdleFrame]

NextExists ==
    \E c \in SeqCallers :
        \/ PrivateKeyExists(c, UuidA)
        \/ PublicKeyExists(c, UuidA)
        \/ FindObjectsInit(c)
        \/ FindObjects(c)
        \/ FindObjectsFinal(c)
        \/ Sleep(c)
        \/ Logout(c)
        \/ CloseSession(c)
        \/ Finalize(c)
        \/ Initialize(c)
        \/ GetSlotList(c)
        \/ OpenSession(c)
        \/ Login(c)

SpecExists == InitExists /\ [][NextExists]_vars

\* Sign, SignHash and Verify called one after the other by one caller, on a
\* device that holds a key pair, a private key alone, a key pair whose public
\* point is off the curve, or nothing
KeyPair(pubValue) ==
    {Object(1, UuidA, "priv", Scalar1), Object(2, UuidA, "pub", pubValue)}

SignContents ==
    {KeyPair(GoodPoint), KeyPair(pubKeyBytesHSM(ScalarZero)),
     {Object(1, UuidA, "priv", Scalar1)}, {}}

Data1 == <<1>>

Data2 == <<2>>

SignData == {NilBytes, << >>, Data1, Data2}

SignHashes == {Sum256(Data1), HashShort, << >>, Hash1 \o <<0>>}

Signature1 == DeviceSignature(Scalar1, Sum256(Data1))

VerifySignatures ==
    {Signature1, DeviceSignature(Scalar1, Sum256(Data2)), SliceTo(Signature1, 63),
     Signature1 \o <<0>>, [Signature1 EXCEPT ![64] = 2], NilBytes}

InitSign ==
    /\ ProtocolInit
    /\ sessionHandle = 1
    /\ pkcs11Retries \in {0, 1}
    /\ dev \in {[ReadyDev EXCEPT !.objects = os] : os \in SignContents}
    /\ faults = 0
    /\ frame = [c \in Callers |-> IdleFrame]

NextSign ==
    \E c \in SeqCallers :
        \/ \E data \in SignData : Sign(c, UuidA, data)
        \/ \E hash \in SignHashes : SignHash(c, UuidA, hash)
        \/ \E data \in SignData, signature \in VerifySignatures :
              BackendVerify(c, UuidA, data, signature)
        \/ FindObjectsInit(c)
        \/ FindObjects(c)
        \/ FindObjectsFinal(c)
        \/ GetAttributeValue(c)
        \/ SignInit(c)
        \/ CtxSign(c)
        \/ Sleep(c)
        \/ Logout(c)
        \/ CloseSession(c)
        \/ Finalize(c)
        \/ Initialize(c)
        \/ GetSlotList(c)
        \/ OpenSession(c)
        \/ Login(c)

SpecSign == InitSign /\ [][NextSign]_vars

\* every operation of the backend that goes through pkcs11Retry, called one
\* after the other by one caller, with one retry configured, on a device that
\* holds a key pair or nothing
InitOps ==
    /\ ProtocolInit
    /\ sessionHandle = 1
    /\ pkcs11Retries = 1
    /\ dev \in {ReadyDev, [ReadyDev EXCEPT !.objects = KeyPair(GoodPoint)]}
    /\ faults = 0
    /\ frame = [c \in Callers |-> IdleFrame]

NextOps ==
    \E c \in SeqCallers :
        \/ SignHash(c, UuidA, Hash1)
        \/ GetPublicKey(c, UuidA)
        \/ PrivateKeyExists(c, UuidA)
        \/ SetKey(c, UuidA, Scalar1)
        \/ GenerateKey(c, UuidA)
        \/ FindObjectsInit(c)
        \/ FindObjects(c)
        \/ FindObjectsFinal(c)
        \/ GetAttributeValue(c)
        \/ CreateObject(c)
        \/ GenerateKeyPair(c)
        \/ SignInit(c)
        \/ CtxSign(c)
        \/ Sleep(c)
        \/ Logout(c)
        \/ CloseSession(c)
        \/ Finalize(c)
        \/ Initialize(c)
        \/ GetSlotList(c)
        \/ OpenSession(c)
        \/ Login(c)

SpecOps == InitOps /\ [][NextOps]_vars

\* SignHash and GetPublicKey called one after the other by one caller, on a
\* device that holds no, one or several keys of a class for the Identity
NextHandle ==
    \E c \in SeqCallers :
        \/ SignHash(c, UuidA, Hash1)
        \/ GetPublicKey(c, UuidA)
        \/ FindObjectsInit(c)
        \/ FindObjects(c)
        \/ FindObjectsFinal(c)
        \/ GetAttributeValue(c)
        \/ SignInit(c)
        \/ CtxSign(c)
        \/ Sleep(c)
        \/ Logout(c)
        \/ CloseSession(c)
        \/ Finalize(c)
        \/ Initialize(c)
        \/ GetSlotList(c)
        \/ OpenSession(c)
        \/ Login(c)

SpecHandle == InitExists /\ [][NextHandle]_vars

\* the packet codec called on packets and on bytes
NextCodec ==
    \/ \E p \in CodecPackets : CallEncodeDecode(p)
    \/ \E b \in CodecBytes : CallDecode(b)
    \/ \E b \in CodecBytes : CallDecodeSigned(b)
    \/ \E b \in CodecBytes : CallDecodeChained(b)

SpecCodec == Init /\ [][NextCodec]_vars

\* SetKey and GetPublicKey called one after the other by one caller
InitPub == ProtocolInit /\ \E n \in {0, MaxRetries} : BackendInit(n)

NextPub ==
    \E c \in SeqCallers :
        \/ \E id \in KeyIds, d \in ImportKeys : SetKey(c, id, d)
        \/ \E id \in KeyIds : GetPublicKey(c, id)
        \/ FindObjectsInit(c)
        \/ FindObjects(c)
        \/ FindObjectsFinal(c)
        \/ CreateObject(c)
        \/ GetAttributeValue(c)
        \/ Sleep(c)
        \/ Logout(c)
        \/ CloseSession(c)
        \/ Finalize(c)
        \/ Initialize(c)
        \/ GetSlotList(c)
        \/ OpenSession(c)
        \/ Login(c)

SpecPub == InitPub /\ [][NextPub]_vars

(***************************************************************************)
(* Properties of the Protocol engine                                       *)
(***************************************************************************)
\* the fields of a returned Chained packet, read at their offsets in the bytes:
\* 0x96, version, 0xC4 0x10, uuid (16), 0xC4 0x40, previous signature (64), ...
PrevSignatureField(upp) == SubSeq(upp, 23, 22 + nistp256SignatureLength)

SignatureField(upp) == SubSeq(upp, Len(upp) - nistp256SignatureLength + 1, Len(upp))

\* the Chained packets returned for one Identity, in the order of their return
ChainedReturned(id) ==
    SelectSeq(returned, LAMBDA r : r.version = Chained /\ GetUUID(r.name) = id)

\* C1: on a Protocol whose chain state starts empty, the first Chained packet
\* returned for an Identity carries 64 zero bytes as previous signature, and every
\* later one carries the signature of the Chained packet returned before it for
\* that Identity, whatever Signed packets, failed calls and packets of other
\* Identities lie in between.
C1_ChainLinks ==
    \A id \in Uuids :
        LET c == ChainedReturned(id) IN
        \A n \in 1..Len(c) :
            PrevSignatureField(c[n].upp)
                = IF n = 1 THEN Rep(nistp256SignatureLength, 0)
                  ELSE SignatureField(c[n - 1].upp)

\* two Chained packets of one Identity with another returned packet between them
C1_Witness ==
    /\ Len(returned) = 3
    /\ returned[1].version = Chained
    /\ returned[3].version = Chained
    /\ returned[1].name = returned[3].name
    /\ \/ returned[2].version = Signed
       \/ returned[2].name # returned[1].name
    /\ PrevSignatureField(returned[3].upp) = SignatureField(returned[1].upp)

\* the packet a returned record was built from, its signature still absent
UnsignedPacket(r) ==
    IF r.version = Chained
    THEN ChainedUPP(GetUUID(r.name), PrevSignatureField(r.upp), r.hint, r.hash, NilBytes)
    ELSE SignedUPP(GetUUID(r.name), r.hint, r.hash, NilBytes)

\* C2: Verify returns true on every packet SignHashExtended returned: it hands
\* the Verifier the bytes sign handed to the Signer (the encoding without its
\* last byte, the empty signature) and the signature the Signer returned.
C2_VerifyAcceptsSigned ==
    \A i \in 1..Len(returned) :
        LET r == returned[i]
            v == VerifyResult(r.name, r.upp)
        IN  /\ v.called /\ v.ok /\ ~v.err
            /\ VerifyData(r.upp) = r.data
            /\ VerifySignature(r.upp) = r.sig
            /\ r.data \o <<192>> = Encode(UnsignedPacket(r))
            /\ [id |-> GetUUID(r.name), data |-> r.data, sig |-> r.sig] \in issued

\* Verify was run on a returned packet and answered true
C2_Witness ==
    /\ lastCall.op = "Verify"
    /\ ~lastCall.tampered
    /\ lastCall.called
    /\ lastCall.ok
    /\ \E i \in 1..Len(returned) : returned[i].version = Chained
    /\ \E i \in 1..Len(returned) : returned[i].version = Signed

TamperDeltas == {1, 255}

\* C3: a returned packet with one byte of its signed body or of its trailing
\* signature changed is not verified as true for the same Identity.  (Verify
\* changes neither the returned packets nor the Signer's table, so the states
\* left by SignHashExtended cover every combination of the two.)
C3_TamperedNeverVerifies ==
    lastCall.op # "Verify" =>
        \A i \in 1..Len(returned) :
            LET r == returned[i] IN
            \A p \in BodyPositions(r.upp) \cup SignaturePositions(r.upp),
               d \in TamperDeltas :
                ~VerifyResult(r.name, Tamper(r.upp, p, d)).ok

\* Verify was run on a changed packet and answered false without an error, and
\* some changed packet carries the body of another packet signed by the same key
C3_Witness ==
    /\ lastCall.op = "Verify"
    /\ lastCall.tampered
    /\ lastCall.called
    /\ ~lastCall.ok
    /\ lastCall.err = ""
    /\ \E i, j \in 1..Len(returned) :
          /\ returned[i].name = returned[j].name
          /\ VerifyData(Tamper(returned[i].upp,
                               Len(returned[i].upp) - lenMsgpackSignatureElement, 1))
                = returned[j].data

(***************************************************************************)
(* Properties of the Retry Engine and the error handler                    *)
(***************************************************************************)
OK(call) == <<call, CKR_OK>>

\* the results of the invocations of f the running pkcs11Retry call has made
Invocations(f) ==
    LET fs == SelectSeq(f.events, LAMBDA e : e[1] = "f")
    IN  [i \in 1..Len(fs) |-> fs[i][2]]

IsPrefix(s, t) == Len(s) <= Len(t) /\ SubSeq(t, 1, Len(s)) = s

Retryable(code) == code \in TransientCodes \cup DeviceRemovedCodes \cup SessionCodes

Fatal(code) == ~Retryable(code) /\ code \notin {CKR_OK, NotPkcs11}

\* C4: while f has failed only with Transient codes, k times with k not above
\* the configured bound, pkcs11Retry has not returned; and when invocation k+1
\* then succeeds, pkcs11Retry has returned nil with exactly k+1 invocations made.
C4_TransientThenSuccess ==
    \A c \in Callers :
        frame[c].api = "pkcs11Retry" =>
            LET f == frame[c]
                r == Invocations(f)
            IN  \A k \in 0..Len(r) :
                    (k <= pkcs11Retries /\ \A i \in 1..k : r[i] \in TransientCodes) =>
                        /\ Len(r) = k => f.pc \in {"f", "Sleep"}
                        /\ (Len(r) > k /\ r[k + 1] = CKR_OK) =>
                              /\ Len(r) = k + 1
                              /\ f.pc = "done"
                              /\ f.ret = NilErr

\* two transient failures, then success, with a bound of 3
C4_Witness ==
    \E c \in Callers :
        /\ frame[c].api = "pkcs11Retry"
        /\ pkcs11Retries = 3
        /\ Invocations(frame[c]) = <<"CKR_DEVICE_ERROR", "CKR_DEVICE_ERROR", CKR_OK>>
        /\ frame[c].pc = "done"
        /\ frame[c].ret = NilErr

\* every wait and every device call of a session reset in the call went well
ResetsSucceeded(f) ==
    /\ f.pc # "panicked"
    /\ \A i \in 1..Len(f.events) : f.events[i][1] # "f" => f.events[i][2] = CKR_OK

\* C5: when every invocation of f fails with a retryable code and every session
\* reset succeeds, pkcs11Retry returns exactly when f has failed bound+1 times,
\* and what it returns is the give-up error carrying the code of the last
\* invocation.
C5_ExhaustedCarriesLast ==
    \A c \in Callers :
        frame[c].api = "pkcs11Retry" =>
            LET f == frame[c]
                r == Invocations(f)
            IN  ((\A i \in 1..Len(r) : Retryable(r[i])) /\ ResetsSucceeded(f)) =>
                    /\ Len(r) <= pkcs11Retries + 1
                    /\ f.pc = "done" <=> Len(r) = pkcs11Retries + 1
                    /\ f.pc = "done" =>
                          /\ f.ret.kind = "gaveup"
                          /\ f.ret.code = r[Len(r)]
                          /\ f.ret.retries = pkcs11Retries

\* a call that gave up after a session reset, its last failure another code
\* than its first
C5_Witness ==
    \E c \in Callers :
        LET f == frame[c]
            r == Invocations(f)
        IN  /\ f.api = "pkcs11Retry"
            /\ f.pc = "done"
            /\ f.ret.kind = "gaveup"
            /\ pkcs11Retries >= 2
            /\ \A i \in 1..Len(r) : Retryable(r[i])
            /\ ResetsSucceeded(f)
            /\ OK("Login") \in {f.events[i] : i \in 1..Len(f.events)}
            /\ r[1] # r[Len(r)]
            /\ f.ret.code = r[Len(r)]

\* C6: an invocation of f that returns a Fatal code is the last thing the
\* pkcs11Retry call does: no invocation, wait, teardown or setup call follows
\* it, and pkcs11Retry has returned an error.
C6_FatalReturnsAtOnce ==
    \A c \in Callers :
        frame[c].api = "pkcs11Retry" =>
            LET f == frame[c] IN
            \A i \in 1..Len(f.events) :
                (f.events[i][1] = "f" /\ Fatal(f.events[i][2])) =>
                    /\ i = Len(f.events)
                    /\ f.pc = "done"
                    /\ f.ret # NilErr

\* a Fatal code on the second invocation, with retries left
C6_Witness ==
    \E c \in Callers :
        LET f == frame[c] IN
        /\ f.api = "pkcs11Retry"
        /\ f.pc = "done"
        /\ Invocations(f) = <<"CKR_DEVICE_ERROR", "CKR_GENERAL_ERROR">>
        /\ pkcs11Retries = MaxRetries
        /\ f.ret.kind = "unfixable"

\* the calls of the handler so far, the wait left out
ResetCalls(f) == SelectSeq(f.events, LAMBDA e : e[1] # "Sleep")

ResetDone(f) == f.events # << >> /\ f.events[Len(f.events)] = OK("Login")

\* C7: the four lists of the handler are pairwise disjoint, and a call of the
\* handler with a code does what the code's list says: Transient waits once and
\* returns nil; Session-broken starts the teardown without a wait and returns
\* nil exactly when the reset went through; Device-removed waits once, then does
\* the same; Fatal returns the code itself without a wait or a device call; a
\* code in none of the lists returns an error without a wait or a device call.
C7_Classification ==
    /\ \A S, T \in {TransientCodes, DeviceRemovedCodes, SessionCodes, UnfixableCodes} :
            S # T => S \cap T = {}
    /\ \A c \in Callers :
        frame[c].api = "pkcs11HandleGenericErrors" =>
            LET f == frame[c]
                code == f.herr
                ev == f.events
                ended == f.pc = "done"
            IN  /\ code \in TransientCodes =>
                      /\ ev \in {<< >>, <<OK("Sleep")>>}
                      /\ ended <=> ev = <<OK("Sleep")>>
                      /\ ended => f.ret = NilErr
                /\ code \in SessionCodes =>
                      /\ ResetCalls(f) = ev
                      /\ ev # << >> => ev[1][1] = "Logout"
                      /\ ended => (ev # << >> /\ (f.ret = NilErr <=> ResetDone(f)))
                /\ code \in DeviceRemovedCodes =>
                      /\ ev # << >> => ev[1] = OK("Sleep")
                      /\ Len(ev) = Len(ResetCalls(f)) + (IF ev = << >> THEN 0 ELSE 1)
                      /\ Len(ev) >= 2 => ev[2][1] = "Logout"
                      /\ ended => (Len(ev) >= 2 /\ (f.ret = NilErr <=> ResetDone(f)))
                /\ code \in UnfixableCodes =>
                      /\ ended
                      /\ ev = << >>
                      /\ f.ret = Pkcs11Err(code)
                /\ code \notin ListedCodes \cup {CKR_OK} =>
                      /\ ended
                      /\ ev = << >>
                      /\ f.ret # NilErr
                      /\ f.ret.kind = "dontknow"

\* the handler has waited, reset the session and returned nil for
\* CKR_DEVICE_REMOVED
C7_Witness ==
    \E c \in Callers :
        LET f == frame[c] IN
        /\ f.api = "pkcs11HandleGenericErrors"
        /\ f.herr \in DeviceRemovedCodes
        /\ f.pc = "done"
        /\ f.ret = NilErr
        /\ f.events[1] = OK("Sleep")
        /\ ResetDone(f)

\* what a pkcs11Retry call does whose f fails once with a Session-broken code
ResetTrace(code) ==
    <<<<"f", code>>, OK("Logout"), OK("CloseSession"), OK("Finalize"),
      OK("Initialize"), OK("GetSlotList"), OK("OpenSession"), OK("Login"), OK("f")>>

\* C8: with a bound of at least 1, a pkcs11Retry call whose first invocation of
\* f fails with a Session-broken code and whose every later call succeeds does
\* the teardown, then the setup, then invokes f again, and then, not before,
\* returns nil with the session Ready.
C8_SessionResetTransparent ==
    \A c \in Callers :
        LET f == frame[c] IN
        ( /\ f.api = "pkcs11Retry"
          /\ pkcs11Retries >= 1
          /\ f.events # << >>
          /\ f.events[1][2] \in SessionCodes
          /\ \A i \in 2..Len(f.events) : f.events[i][2] = CKR_OK ) =>
            /\ IsPrefix(f.events, ResetTrace(f.events[1][2]))
            /\ f.pc = "done" <=> f.events = ResetTrace(f.events[1][2])
            /\ f.pc = "done" => (f.ret = NilErr /\ Ready)

C8_Witness ==
    \E c \in Callers :
        LET f == frame[c] IN
        /\ f.api = "pkcs11Retry"
        /\ f.events = ResetTrace("CKR_SESSION_HANDLE_INVALID")
        /\ f.pc = "done"
        /\ f.ret = NilErr
        /\ Ready
        /\ sessionHandle # 1

(***************************************************************************)
(* Properties of SetKey and GenerateKey                                    *)
(***************************************************************************)
KeyApis == {"SetKey", "GenerateKey"}

\* an object of the Identity was on the device when the operation started
HadObject(f) == \E o \in f.pre : o.id = f.id

\* an existence check of the operation ended with pkcs11GetObjects failing
CheckFailed(f) ==
    \E i \in 1..Len(f.rets) :
        f.rets[i][1] \in {"privExists", "pubExists"} /\ f.rets[i][2] # NilErr.kind

\* C9: a SetKey or GenerateKey for an Identity that had a key object on the
\* device when the call started, or one of whose existence checks failed,
\* issues no CreateObject and no GenerateKeyPair call and returns an error; it
\* returns as soon as the check has failed.
C9_NoCreateOverExisting ==
    \A c \in Callers :
        LET f == frame[c] IN
        (f.api \in KeyApis /\ (HadObject(f) \/ CheckFailed(f))) =>
            /\ f.creates = 0
            /\ f.pc = "done" => f.ret # NilErr
            /\ CheckFailed(f) => f.pc = "done"

\* a SetKey refused because of the public key a failed SetKey left behind
C9_Witness ==
    \E c \in Callers :
        LET f == frame[c] IN
        /\ f.api = "SetKey"
        /\ f.pc = "done"
        /\ f.creates = 0
        /\ f.ret.step = "pubExists"
        /\ Matching(f.pre, f.id, "pub") # {}
        /\ Matching(f.pre, f.id, "priv") = {}

C10_AtMostOne ==
    \A id \in KeyIds, class \in {"pub", "priv"} :
        Cardinality(Matching(dev.objects, id, class)) <= 1

C10_Immutable ==
    /\ dev.objects \subseteq dev'.objects
    /\ \A o \in dev'.objects \ dev.objects : Matching(dev.objects, o.id, o.class) = {}

\* C10: in every state of a sequence of SetKey and GenerateKey calls the device
\* holds at most one public and at most one private key object per Identity,
\* and every step keeps the objects there are as they are and adds none of a
\* class an Identity already has.
C10_KeyObjectsStable == []C10_AtMostOne /\ [][C10_Immutable]_vars

\* a call for an Identity that has both objects has been refused
C10_Witness ==
    \E c \in Callers :
        LET f == frame[c] IN
        /\ f.api \in KeyApis
        /\ f.pc = "done"
        /\ f.ret # NilErr
        /\ Matching(f.pre, f.id, "pub") # {}
        /\ Matching(f.pre, f.id, "priv") # {}
        /\ dev.objects = f.pre

(***************************************************************************)
(* Properties of concurrent callers                                        *)
(***************************************************************************)
\* C11: of the Chained packets returned for one Identity, also to callers that
\* ran side by side, no two carry the same previous-signature, and of two
\* returned one after the other one carries the signature of the other.
C11_ChainCriticalSection ==
    \A id \in Uuids :
        LET ch == ChainedReturned(id) IN
        /\ \A i, j \in 1..Len(ch) :
              i # j => PrevSignatureField(ch[i].upp) # PrevSignatureField(ch[j].upp)
        /\ \A i \in 2..Len(ch) :
              \/ PrevSignatureField(ch[i].upp) = SignatureField(ch[i - 1].upp)
              \/ PrevSignatureField(ch[i - 1].upp) = SignatureField(ch[i].upp)

\* C12: no caller issues a device call of an operation on a session handle
\* whose session another caller has closed.
C12_NoTornDownHandle == \A c \in Callers : ~frame[c].stale

\* C13: of the SetKey and GenerateKey calls that callers make side by side for
\* one Identity at most one returns nil, and the device never holds two
\* objects of one class for the Identity.
C13_OneKeyPerIdentity ==
    /\ C10_AtMostOne
    /\ \A c, d \in Callers :
          ( /\ c # d
            /\ frame[c].api \in KeyApis /\ frame[d].api \in KeyApis
            /\ frame[c].id = frame[d].id
            /\ frame[c].pc = "done" /\ frame[d].pc = "done" ) =>
                ~(frame[c].ret = NilErr /\ frame[d].ret = NilErr)

(***************************************************************************)
(* Properties of the framing of returned packets                           *)
(***************************************************************************)
\* the two bytes in front of the trailing signature of a packet
FramingField(upp) ==
    SubSeq(upp, Len(upp) - lenMsgpackSignatureElement + 1,
           Len(upp) - nistp256SignatureLength)

\* C14: every packet returned by SignHashExtended ends with the bytes 0xC4,
\* 0x40 and the 64 bytes of the signature the Signer gave for the bytes in
\* front of them; a call whose Signer gave a signature of another length
\* returned an error and no packet.
C14_ReturnedPacketFramed ==
    /\ \A i \in 1..Len(returned) :
          LET r == returned[i] IN
          /\ Len(r.upp) > lenMsgpackSignatureElement
          /\ FramingField(r.upp) = <<196, 64>>
          /\ Len(SignatureField(r.upp)) = 64
          /\ SignatureField(r.upp) = r.sig
          /\ r.upp = r.data \o <<196, 64>> \o r.sig
    /\ ( /\ lastCall.op = "SignHashExtended"
         /\ lastCall.called
         /\ lastCall.err # "sign"
         /\ lastCall.sigLen # 64 ) =>
            (~lastCall.ok /\ ~lastCall.gotPacket)
    /\ (lastCall.op = "SignHashExtended" /\ lastCall.gotPacket) =>
            (lastCall.ok /\ lastCall.sigLen = 64)

\* a packet has been returned, and the latest call had a Signer that answered
\* with 63 bytes
C14_Witness ==
    /\ Len(returned) >= 1
    /\ lastCall.op = "SignHashExtended"
    /\ lastCall.called
    /\ lastCall.sigLen = 63
    /\ lastCall.err = "siglen"

(***************************************************************************)
(* Properties of the key import                                            *)
(***************************************************************************)
\* a private scalar d with 0 < d < N
ValidScalar(d) ==
    /\ Len(d) = 32
    /\ d # Rep(32, 0)
    /\ ~CmpGE(d, curveOrder)

\* the scalars a SetKey that returned nil has stored for id: with one caller
\* the private key object is there exactly when SetKey has written both
StoredScalars(id) == {o.val : o \in Matching(dev.objects, id, "priv")}

\* every device call of the running or finished operation of c went through
NoCallFailed(c) ==
    /\ \A i \in 1..Len(frame[c].rets) : frame[c].rets[i][2] = NilErr.kind
    /\ \A i \in 1..Len(frame[c].events) : frame[c].events[i][2] = CKR_OK

\* C15: after a SetKey(id, d) that returned nil, with 0 < d < N, on an
\* Identity that had no key, a GetPublicKey(id) that returns bytes returns the
\* 64 bytes X||Y of d*G, 32 bytes each, and it does return them unless one of
\* its device calls failed.
C15_SetKeyThenGetPublicKey ==
    \A c \in SeqCallers :
        LET f == frame[c] IN
        ( /\ f.api = "GetPublicKey"
          /\ f.pc = "done"
          /\ \E d \in StoredScalars(f.id) : ValidScalar(d) ) =>
            /\ f.ret = NilErr =>
                  \E d \in StoredScalars(f.id) :
                      /\ Len(f.out) = 64
                      /\ f.out = FillBytes(ScalarBaseMult(d).X, 32)
                                    \o FillBytes(ScalarBaseMult(d).Y, 32)
            /\ NoCallFailed(c) => f.ret = NilErr

\* GetPublicKey has returned the public key of the scalar 1, whose Y has 31
\* leading zero bytes
C15_Witness ==
    \E c \in SeqCallers :
        /\ frame[c].api = "GetPublicKey"
        /\ frame[c].pc = "done"
        /\ frame[c].ret = NilErr
        /\ StoredScalars(frame[c].id) = {Scalar1}
        /\ Len(frame[c].out) = 64
        /\ frame[c].out[64] = 1

\* C16: a SetKey whose scalar is not 32 bytes long, is zero or is not below
\* the curve order, or whose Identity is nil, returns an error and has
\* written no object to the device.
C16_SetKeyRejectsInvalid ==
    \A c \in SeqCallers :
        LET f == frame[c] IN
        ( /\ f.api = "SetKey"
          /\ ~(ValidScalar(f.priv) /\ f.id # NilUuid) ) =>
            /\ f.creates = 0
            /\ dev.objects = f.pre
            /\ f.pc = "done" => f.ret # NilErr

(***************************************************************************)
(* Properties of the packet codec                                          *)
(***************************************************************************)
\* C17: for a Signed or Chained packet p with a 64-byte signature (and, if
\* Chained, a 64-byte previous-signature), Decode(Encode(p)) succeeds and
\* gives a packet of the same variant with the same version, Identity,
\* previous-signature, hint, payload and signature.
C17_RoundTrip ==
    codecCall.op = "EncodeDecode" =>
        LET p == codecCall.p
            q == codecCall.res.upp
        IN  /\ codecCall.res.err = ""
            /\ IsChainedUPP(q) = IsChainedUPP(p)
            /\ q.Version = p.Version
            /\ q.Uuid = p.Uuid
            /\ IsChainedUPP(p) => q.PrevSignature = p.PrevSignature
            /\ q.Hint = p.Hint
            /\ q.Payload = p.Payload
            /\ q.Signature = p.Signature

\* a Chained packet with the two-byte hint and a non-zero previous-signature
\* has made the round trip
C17_Witness ==
    /\ codecCall.op = "EncodeDecode"
    /\ IsChainedUPP(codecCall.p)
    /\ codecCall.p.Hint = Disable
    /\ codecCall.p.PrevSignature = SigValue(3)
    /\ codecCall.res.err = ""
    /\ codecCall.res.upp.Payload = Hash1

\* the byte at offset 1 of the input of the latest call, -1 where there is none
TagOf(b) == IF IsNil(b) \/ Len(b) < 2 THEN -1 ELSE b[2]

\* C18: Decode returns an error and no packet for nil input, for input of
\* fewer than 2 bytes and for input whose byte at offset 1 is neither 0x22 nor
\* 0x23; what it returns for 0x22 is a Signed packet and for 0x23 a Chained
\* one; DecodeSigned fails on input of the Chained variant and DecodeChained
\* on input of the Signed variant; every call ends with a packet or an error.
C18_DecodeErrors ==
    codecCall.op \in {"Decode", "DecodeSigned", "DecodeChained"} =>
        LET tag == TagOf(codecCall.in)
            res == codecCall.res
        IN  /\ tag \notin {34, 35} => res.err # ""
            /\ res.err # "" <=> res.upp = NoUPP
            /\ (res.err = "" /\ tag = 34) => ~IsChainedUPP(res.upp)
            /\ (res.err = "" /\ tag = 35) => IsChainedUPP(res.upp)
            /\ (codecCall.op = "DecodeSigned" /\ tag = 35) => res.err # ""
            /\ (codecCall.op = "DecodeChained" /\ tag = 34) => res.err # ""
            /\ res.err \in {"", "input", "version", "decode", "type"}

\* DecodeSigned has refused bytes that Decode takes for a Chained packet
C18_Witness ==
    /\ codecCall.op = "DecodeSigned"
    /\ Decode(codecCall.in).err = ""
    /\ IsChainedUPP(Decode(codecCall.in).upp)
    /\ codecCall.res.err = "type"
    /\ codecCall.res.upp = NoUPP

(***************************************************************************)
(* Properties of CheckChainLink                                            *)
(***************************************************************************)
\* the i-th and the j-th returned packet are consecutive Chained packets of
\* one Identity
Consecutive(i, j) ==
    /\ i < j
    /\ returned[i].version = Chained /\ returned[j].version = Chained
    /\ returned[i].name = returned[j].name
    /\ \A k \in (i + 1)..(j - 1) :
          ~(returned[k].version = Chained /\ returned[k].name = returned[i].name)

\* C19: CheckChainLink(prev, next) returns an error exactly when prev's
\* signature is empty or next's previous-signature is empty, which it is for
\* every Signed next; otherwise it returns true exactly when the two values
\* are the same bytes: true for two consecutive Chained packets of one
\* Identity, false once the signature of the earlier one is corrupted.
C19_CheckChainLink ==
    codecCall.op = "CheckChainLink" =>
        LET c == codecCall IN
        /\ c.res.err # "" <=>
              \/ GoLen(c.prev.Signature) = 0
              \/ ~IsChainedUPP(c.next)
              \/ GoLen(c.next.PrevSignature) = 0
        /\ c.res.err # "" => ~c.res.ok
        /\ c.res.err = "" =>
              /\ Len(c.prev.Signature) = 64 /\ Len(c.next.PrevSignature) = 64
              /\ c.res.ok <=>
                    \A k \in 1..64 : c.prev.Signature[k] = c.next.PrevSignature[k]
        /\ (Consecutive(c.i, c.j) /\ c.prevMod = "asis" /\ c.nextMod = "asis") =>
              (c.res.err = "" /\ c.res.ok)
        /\ (Consecutive(c.i, c.j) /\ c.prevMod = "corrupt" /\ c.nextMod = "asis") =>
              (c.res.err = "" /\ ~c.res.ok)

\* CheckChainLink has answered false for two consecutive Chained packets
\* after the last byte of the earlier one's signature was changed
C19_Witness ==
    /\ codecCall.op = "CheckChainLink"
    /\ Consecutive(codecCall.i, codecCall.j)
    /\ codecCall.prevMod = "corrupt"
    /\ codecCall.nextMod = "asis"
    /\ codecCall.res.err = ""
    /\ ~codecCall.res.ok

(***************************************************************************)
(* Properties of the session teardown                                      *)
(***************************************************************************)
TeardownCalls == <<"Logout", "CloseSession", "Finalize">>

\* the teardown calls among the device calls of an operation, in their order
TeardownEvents(f) ==
    SelectSeq(f.events, LAMBDA e : e[1] \in {"Logout", "CloseSession", "Finalize"})

SetupCalls == <<"Initialize", "GetSlotList", "OpenSession", "Login">>

\* the setup calls among the device calls of an operation, in their order
SetupEvents(f) ==
    SelectSeq(f.events,
              LAMBDA e : e[1] \in {"Initialize", "GetSlotList", "OpenSession", "Login"})

\* the result of a setup call counts as a failure of its step
SetupStepFailed(e) ==
    IF e[1] = "Initialize"
    THEN e[2] \notin {CKR_OK, "CKR_CRYPTOKI_ALREADY_INITIALIZED"}
    ELSE e[2] # CKR_OK

\* the setup steps fail with an error, the list without the slot included
SetupReturnsErrors(c) ==
    LET f == frame[c]
        su == SetupEvents(f)
        n == Len(su)
    IN  /\ n <= 4
        /\ \A i \in 1..n : su[i][1] = SetupCalls[i]
        /\ \A i \in 1..(n - 1) : ~SetupStepFailed(su[i])
        /\ (n > 0 /\ SetupStepFailed(su[n])) =>
              /\ f.events[Len(f.events)] = su[n]
              /\ f.pc \in {"done", "panicked"}
              /\ f.pc = "done" =>
                    (f.ret.kind = "setup" /\ f.ret.step = su[n][1] /\ f.ret.code = su[n][2])
        /\ (f.pc = "done" /\ f.ret = NilErr /\ n > 0) =>
              (n = 4 /\ ~SetupStepFailed(su[4]))

\* C21: the session setup returns an error whenever one of its steps fails
\* (Initialize with another code than 'already initialized', GetSlotList, a
\* slot list without the configured slot, OpenSession, Login): it does not
\* crash and does not report success, and it issues each step once.
C21_SetupFailsWithError ==
    \A c \in SeqCallers :
        frame[c].api = "pkcs11HandleGenericErrors" =>
            /\ SetupReturnsErrors(c)
            /\ frame[c].pc # "panicked"

(***************************************************************************)
(* Properties of Close                                                     *)
(***************************************************************************)
\* a Close that has returned has released the context
ClosedAfterClose ==
    \A c \in Callers :
        (frame[c].api = "Close" /\ Quiet(c)) => Destroyed

\* no device call goes out through a released context
NoCallOnReleased ==
    \A c \in Callers :
        \A i \in 1..Len(frame[c].events) : frame[c].events[i][2] # Crash

\* C22: Close tears the session down and then releases the device context;
\* once Close has been called the backend is Closed, its context released,
\* and no later call on the backend issues a device operation.
C22_ClosedIsTerminal ==
    /\ ClosedAfterClose
    /\ NoCallOnReleased
    /\ \A c \in Callers :
          frame[c].pc = "closed" =>
              (~dev.initialized /\ dev.sessions = {} /\ ~dev.loggedIn)

(***************************************************************************)
(* Properties of the session state machine                                 *)
(***************************************************************************)
\* session state Initialized: no session is established
NoSession == sessionHandle \notin dev.sessions /\ ~dev.loggedIn

\* a caller is about to issue the first call of the teardown, of the setup
TeardownStarts(c) == frame[c].pc = "Logout"

SetupStarts(c) == frame[c].pc = "Initialize"

\* C23: in every run, those with session resets by the Retry Engine
\* included, the setup is started only when no session is established and
\* the teardown only when a logged-in session exists.
C23_SessionStateMachine ==
    \A c \in SeqCallers :
        /\ SetupStarts(c) => NoSession
        /\ TeardownStarts(c) => Ready

(***************************************************************************)
(* Properties of the existence checks                                      *)
(***************************************************************************)
ExistsApis == {"PrivateKeyExists", "PublicKeyExists"}

\* the objects on the device that the check of caller c asks for
Asked(c) ==
    Matching(dev.objects, frame[c].id,
             IF frame[c].api = "PrivateKeyExists" THEN "priv" ELSE "pub")

\* the query of the check of caller c, its pkcs11Retry call, has failed
QueryFailed(c) == frame[c].rets[1][2] # NilErr.kind

\* C24: PrivateKeyExists and PublicKeyExists return true without error when
\* exactly one object of the Identity and class is on the device, false
\* without error when none is, and true with an error when two or more are
\* or when the query fails; they never return false with an error.
C24_ExistenceChecks ==
    \A c \in SeqCallers :
        LET f == frame[c]
            n == Cardinality(Asked(c))
        IN
        (f.api \in ExistsApis /\ f.pc = "done") =>
            /\ Len(f.rets) = 1
            /\ (~QueryFailed(c) /\ n = 1) => (f.exists /\ f.ret = NilErr)
            /\ (~QueryFailed(c) /\ n = 0) => (~f.exists /\ f.ret = NilErr)
            /\ (~QueryFailed(c) /\ n >= 2) => (f.exists /\ f.ret # NilErr)
            /\ QueryFailed(c) => (f.exists /\ f.ret # NilErr)
            /\ ~(~f.exists /\ f.ret # NilErr)

\* PrivateKeyExists has answered true with an error where the query failed
\* and no key is on the device
C24_Witness ==
    \E c \in SeqCallers :
        /\ frame[c].api = "PrivateKeyExists"
        /\ frame[c].pc = "done"
        /\ QueryFailed(c)
        /\ Asked(c) = {}
        /\ frame[c].exists
        /\ frame[c].ret # NilErr

(***************************************************************************)
(* Properties of GetPublicKey                                              *)
(***************************************************************************)
\* the EC point attribute of the public key of the Identity caller c asks for
PointOf(c) == (CHOOSE o \in Matching(dev.objects, frame[c].id, "pub") : TRUE).val

\* the 64 bytes after the header are a point of the curve
PointOnCurve(v) == IsOnCurve(SubSeq(v, 4, 35), SubSeq(v, 36, 67))

\* C25: GetPublicKey returns an error and no key when the EC point attribute
\* of the key is not 67 bytes long, when its first three bytes are not 0x04,
\* 0x41, 0x04, or when the point is not on the curve; when it succeeds it
\* returns the last 64 bytes of the attribute.
C25_PublicKeyChecks ==
    \A c \in SeqCallers :
        LET f == frame[c] IN
        ( /\ f.api = "GetPublicKey"
          /\ f.pc = "done"
          /\ Matching(dev.objects, f.id, "pub") # {} ) =>
            LET v == PointOf(c) IN
            /\ ( \/ Len(v) # 67
                 \/ SubSeq(v, 1, 3) # <<4, 65, 4>>
                 \/ ~PointOnCurve(v) ) => (f.ret # NilErr /\ f.out = NilBytes)
            /\ f.ret = NilErr =>
                  (Len(f.out) = 64 /\ f.out = SubSeq(v, Len(v) - 63, Len(v)))
            /\ f.ret # NilErr => f.out = NilBytes

\* GetPublicKey has refused an attribute of 67 bytes whose second byte is not
\* 0x41
C25_Witness ==
    \E c \in SeqCallers :
        /\ frame[c].api = "GetPublicKey"
        /\ frame[c].pc = "done"
        /\ Matching(dev.objects, frame[c].id, "pub") # {}
        /\ Len(PointOf(c)) = 67
        /\ PointOf(c)[2] = 3
        /\ frame[c].ret = ApiErr("header", NilErr)
        /\ frame[c].out = NilBytes

(***************************************************************************)
(* Properties of Sign, SignHash and Verify of the HSM backend              *)
(***************************************************************************)
\* the operation of the frame has returned an error and has made no device call
RejectedUpFront(f) ==
    /\ f.pc = "done"
    /\ f.ret # NilErr
    /\ f.calls = {}
    /\ f.events = << >>
    /\ f.rets = << >>

\* the device has answered the last C_Sign of the frame with CKR_OK and a
\* signature that is not 64 bytes long
GotShortSignature(f) ==
    /\ f.stage = "sign"
    /\ \E i \in 1..Len(f.events) :
          /\ f.events[i] = <<"Sign", ShortSignature>>
          /\ \A j \in (i + 1)..Len(f.events) : f.events[j][1] # "Sign"

\* C26: Sign fails on empty data, SignHash on a hash that is not 32 bytes,
\* Verify on empty data or a signature that is not 64 bytes, each before any
\* device call; a SignHash that succeeds returns exactly 64 bytes, and fails
\* when the device returns a signature of another length.
C26_InputsCheckedFirst ==
    \A c \in SeqCallers :
        LET f == frame[c] IN
        /\ (f.api = "Sign" /\ f.data = NilBytes) => RejectedUpFront(f)
        /\ (f.api = "SignHash" /\ GoLen(f.data) # 32) => RejectedUpFront(f)
        /\ (f.api = "Verify" /\ (GoLen(f.data) = 0 \/ GoLen(f.sig) # 64)) =>
              (RejectedUpFront(f) /\ ~f.exists)
        /\ (f.api \in {"Sign", "SignHash"} /\ f.pc = "done") =>
              /\ f.ret = NilErr => (~IsNil(f.out) /\ Len(f.out) = 64)
              /\ f.ret # NilErr => f.out = NilBytes
              /\ GotShortSignature(f) => f.ret # NilErr

\* SignHash has failed on a device signature of 63 bytes
C26_Witness ==
    \E c \in SeqCallers :
        /\ frame[c].api = "SignHash"
        /\ frame[c].pc = "done"
        /\ GotShortSignature(frame[c])
        /\ frame[c].ret = ApiErr("siglen", NilErr)
        /\ frame[c].out = NilBytes

\* the public key of the Identity has been found and read, and is the
\* encoding of a point of the curve
KeyFetched(c) ==
    LET f == frame[c] IN
    /\ Len(f.rets) = 2
    /\ \A i \in 1..2 : f.rets[i][2] = NilErr.kind
    /\ Len(PointOf(c)) = 67
    /\ SubSeq(PointOf(c), 1, 3) = <<4, 65, 4>>
    /\ PointOnCurve(PointOf(c))

VerifyWellFormed(f) == GoLen(f.data) > 0 /\ GoLen(f.sig) = 64

\* the signature is the one the private key of the stored public key makes
\* of the data
SignatureMatches(c) ==
    frame[c].sig = DeviceSignature(SubSeq(PointOf(c), 36, 67), Sum256(frame[c].data))

\* C27: Verify of the HSM backend returns false and no error for non-empty
\* data and a 64-byte signature that does not match under the stored public
\* key; it returns an error only for malformed input or when the public key
\* cannot be fetched or reconstructed; it issues no device call other than
\* those that find and read the public key (and those of a session reset).
C27_VerifyIsLocal ==
    \A c \in SeqCallers :
        LET f == frame[c] IN
        f.api = "Verify" =>
            /\ f.calls \cap {"SignInit", "Sign", "VerifyInit", "Verify"} = {}
            /\ f.calls \subseteq
                  {"FindObjectsInit", "FindObjects", "FindObjectsFinal", "GetAttributeValue",
                   "f", "Sleep", "Logout", "CloseSession", "Finalize", "Initialize",
                   "GetSlotList", "OpenSession", "Login"}
            /\ f.pc = "done" =>
                  /\ (VerifyWellFormed(f) /\ KeyFetched(c)) =>
                        (f.ret = NilErr /\ (f.exists <=> SignatureMatches(c)))
                  /\ f.ret # NilErr => (~f.exists /\ (~VerifyWellFormed(f) \/ ~KeyFetched(c)))

\* Verify has answered false without error for a signature of 64 bytes whose
\* last byte is not that of the data's signature
C27_Witness ==
    \E c \in SeqCallers :
        /\ frame[c].api = "Verify"
        /\ frame[c].pc = "done"
        /\ frame[c].data = Data1
        /\ frame[c].sig = [Signature1 EXCEPT ![64] = 2]
        /\ "GetAttributeValue" \in frame[c].calls
        /\ frame[c].ret = NilErr
        /\ ~frame[c].exists

(***************************************************************************)
(* Properties of a failing SignHashExtended                                *)
(***************************************************************************)
\* the call is refused before sign is reached: the hash is not 32 bytes, the
\* name is not resolved, the version is neither Signed nor Chained, or the
\* Identity's entry is there and is not 64 bytes
RefusedEarly(in) ==
    \/ Len(in.hash) # 32
    \/ ~GetUUIDKnown(in.name)
    \/ in.protocol \notin {Signed, Chained}
    \/ /\ in.protocol = Chained
       /\ GetUUID(in.name) \in DOMAIN Signatures
       /\ Len(Signatures[GetUUID(in.name)]) # 64

\* whatever call is made in this state: if it fails the chain state it leaves
\* is the present one, and a call that is refused early fails without the
\* Signer
FailingCallKeepsChainState ==
    \A in \in SignInputs :
        LET r == SignHashExtendedResult(in.name, in.hash, in.protocol, in.hint, in.outcome)
        IN  /\ r.err # "" => r.sigs = Signatures
            /\ RefusedEarly(in) => (r.err # "" /\ ~r.called)
            /\ in.outcome # "ok" => r.err # ""

\* a step of SignHashExtended that fails
FailingStepKeepsChainState ==
    (lastCall'.op = "SignHashExtended" /\ lastCall'.err # "") =>
        /\ Signatures' = Signatures
        /\ returned' = returned
        /\ lastCall'.called => lastCall'.err \in {"sign", "siglen"}
        /\ ~lastCall'.called => issued' = issued

\* C28: a failing SignHashExtended leaves the chain state of every Identity
\* as it was, whether the hash is not 32 bytes, the name is not resolved, the
\* version is neither Signed nor Chained, the Identity's entry is not 64
\* bytes, the Signer fails or the Signer returns a signature that is not 64
\* bytes; in the first four cases the Signer is not called.
C28_FailureKeepsChainState ==
    []FailingCallKeepsChainState /\ [][FailingStepKeepsChainState]_vars

\* SignHashExtended has failed, without the Signer, on an entry of 63 bytes
\* which is still there
C28_Witness ==
    /\ lastCall.op = "SignHashExtended"
    /\ lastCall.err = "lastsig"
    /\ ~lastCall.called
    /\ UuidA \in DOMAIN Signatures
    /\ Len(Signatures[UuidA]) = 63
    /\ issued = {}

\* SignHashExtended has failed on a Signer's signature of 63 bytes with a
\* chain state that holds the loaded signature
C28_WitnessSigner ==
    /\ lastCall.op = "SignHashExtended"
    /\ lastCall.err = "siglen"
    /\ lastCall.called
    /\ UuidA \in DOMAIN Signatures
    /\ Signatures[UuidA] = SavedSignature

(***************************************************************************)
(* Properties of the framing of Verify                                     *)
(***************************************************************************)
\* the inputs Verify is looked at on: those of the Verify action, and inputs
\* of 0, 1, 65, 66, 67 and 68 bytes
FramingInputs ==
    {in.upp : in \in VerifyInputs}
    \cup {NilBytes, << >>} \cup {Rep(n, 1) : n \in {1, 65, 66, 67, 68}}

\* C29: Verify fails, without resolving the name and without calling the
\* Verifier, on an input of 66 bytes or fewer; of a longer input (and a name
\* that resolves) the Verifier gets all but the last 66 bytes as data and the
\* last 64 bytes as signature, and what the Verifier returns is returned.
C29_VerifyFraming ==
    \A name \in Names, upp \in FramingInputs :
        LET v == VerifyResult(name, upp) IN
        /\ GoLen(upp) <= 66 => (v.err /\ ~v.ok /\ ~v.resolved /\ ~v.called)
        /\ (GoLen(upp) > 66 /\ GetUUIDKnown(name)) =>
              /\ v.resolved /\ v.called
              /\ v.data = SubSeq(upp, 1, Len(upp) - 66)
              /\ v.sig = SubSeq(upp, Len(upp) - 63, Len(upp))
              /\ v.ok = CryptoVerify(GetUUID(name), v.data, v.sig).ok
              /\ v.err = CryptoVerify(GetUUID(name), v.data, v.sig).err
        /\ (GoLen(upp) > 66 /\ ~GetUUIDKnown(name)) => (v.err /\ ~v.ok /\ ~v.called)

\* Verify has failed on an input of 66 bytes before resolving the name
C29_Witness ==
    /\ lastCall.op = "Verify"
    /\ lastCall.tampered
    /\ lastCall.err # ""
    /\ ~lastCall.ok
    /\ ~lastCall.resolved
    /\ ~lastCall.called

(***************************************************************************)
(* Properties of the error pkcs11Retry returns                             *)
(***************************************************************************)
\* what the last call of f in the pkcs11Retry call of the frame returned
LastFailure(f) ==
    f.events[CHOOSE i \in 1..Len(f.events) :
                /\ f.events[i][1] = "f"
                /\ \A j \in (i + 1)..Len(f.events) : f.events[j][1] # "f"][2]

\* the classes of pkcs11HandleGenericErrors: codes it returns as errors, and
\* codes it waits or resets the session for
FatalCode(code) == code # NotPkcs11 /\ HandlerCase(code) \in {"unfixable", "unknown"}

RetryableCode(code) == HandlerCase(code) \in {"wait", "wait_reset", "reset"}

ErrorKindByClass(f) ==
    /\ FatalCode(LastFailure(f)) => f.ret.kind = "unfixable"
    /\ LastFailure(f) = NotPkcs11 => f.ret.kind = "notpkcs11"
    /\ f.ret.kind = "gaveup" => RetryableCode(LastFailure(f))

\* C30: the kind of error pkcs11Retry returns follows from the class of the
\* last failure, whatever the number of attempts made: the unfixable error
\* for a fatal code, the contract-violation error for an error that is no
\* pkcs11.Error, and the gave-up error only after a retryable failure.
C30_ErrorKindFollowsClass ==
    \A c \in SeqCallers :
        LET f == frame[c] IN
        (f.api = "pkcs11Retry" /\ f.pc = "done" /\ f.ret # NilErr) => ErrorKindByClass(f)

\* the same for the failures that are not on the last attempt allowed, and on
\* the last attempt the gave-up error whatever the class
ErrorKindBeforeLastAttempt ==
    \A c \in SeqCallers :
        LET f == frame[c] IN
        (f.api = "pkcs11Retry" /\ f.pc = "done" /\ f.ret # NilErr) =>
            IF GaveUp(f.retries) THEN f.ret.kind = "gaveup" ELSE ErrorKindByClass(f)

(***************************************************************************)
(* Properties of the bound of pkcs11Retry                                  *)
(***************************************************************************)
\* f is called at most pkcs11Retries + 1 times and the error handler at most
\* pkcs11Retries times; after the failure of call pkcs11Retries + 1 nothing
\* follows
RetryBounded ==
    \A c \in SeqCallers :
        LET f == frame[c]
            r == Invocations(f)
        IN  f.api = "pkcs11Retry" =>
                /\ Len(r) <= pkcs11Retries + 1
                /\ f.handled <= pkcs11Retries
                /\ (Len(r) = pkcs11Retries + 1 /\ r[Len(r)] # CKR_OK) =>
                      /\ f.events[Len(f.events)][1] = "f"
                      /\ f.handled = pkcs11Retries
                      /\ f.pc = "done"
                      /\ f.ret # NilErr

RetryRunning(c) ==
    frame[c].api = "pkcs11Retry" /\ frame[c].pc \notin {"done", "panicked"}

RetryEnded(c) == frame[c].pc \in {"done", "panicked"}

\* C31: pkcs11Retry ends when f, the wait and the device calls return; it
\* calls f at most maxRetries + 1 times and the error handler at most
\* maxRetries times, and after the last failed call of f it neither waits nor
\* resets the session.
C31_RetryTerminates ==
    /\ []RetryBounded
    /\ \A c \in SeqCallers : RetryRunning(c) ~> RetryEnded(c)

\* a call that gave up after as many resets of the session as retries allowed
C31_Witness ==
    \E c \in SeqCallers :
        LET f == frame[c] IN
        /\ f.api = "pkcs11Retry"
        /\ f.pc = "done"
        /\ pkcs11Retries = 2
        /\ Len(Invocations(f)) = 3
        /\ f.handled = 2
        /\ f.ret.kind = "gaveup"
        /\ OK("Login") \in {f.events[i] : i \in 1..Len(f.events)}
        /\ f.events[Len(f.events)][1] = "f"

(***************************************************************************)
(* Properties of a failed session reset inside pkcs11Retry                 *)
(***************************************************************************)
TeardownStepFailed(e) == e[1] \in {"Logout", "CloseSession", "Finalize"} /\ e[2] # CKR_OK

SetupStepReturnedError(e) ==
    /\ e[1] \in {"Initialize", "GetSlotList", "OpenSession", "Login"}
    /\ SetupStepFailed(e)
    /\ e[2] # NoSlot

C32_WitnessTeardown ==
    \E c \in SeqCallers :
        LET f == frame[c] IN
        /\ f.api = "pkcs11Retry"
        /\ f.pc = "done"
        /\ pkcs11Retries >= 2
        /\ f.events[Len(f.events)][1] = "Logout"
        /\ f.ret.kind = "unfixable"

(***************************************************************************)
(* Properties of a failed SetKey                                           *)
(***************************************************************************)
\* the key objects of the Identity of the frame among the objects os
KeyObjects(os, f) == Matching(os, f.id, "pub") \cup Matching(os, f.id, "priv")

\* C33: a SetKey that has returned an error has added no key object for its
\* Identity to the device: the Identity's objects are those there were when
\* the call started.
C33_SetKeyAllOrNothing ==
    \A c \in SeqCallers :
        LET f == frame[c] IN
        (f.api = "SetKey" /\ f.pc = "done" /\ f.ret # NilErr) =>
            KeyObjects(dev.objects, f) = KeyObjects(f.pre, f)

\* a SetKey that has returned an error has added no private key object, and
\* a public key object only where its private key call failed
FailedSetKeyLeavesPublicKey ==
    \A c \in SeqCallers :
        LET f == frame[c] IN
        (f.api = "SetKey" /\ f.pc = "done" /\ f.ret # NilErr) =>
            /\ Matching(dev.objects, f.id, "priv") = Matching(f.pre, f.id, "priv")
            /\ KeyObjects(dev.objects, f) # KeyObjects(f.pre, f) =>
                  f.stage = "createPriv"

(***************************************************************************)
(* Properties of the session handle of retried calls                       *)
(***************************************************************************)
RetriedApis == {"SignHash", "GetPublicKey", "PrivateKeyExists", "SetKey", "GenerateKey"}

\* C34: once pkcs11Retry has reset the session inside an operation, every
\* device call the operation makes afterwards bears the session handle that
\* the latest successful setup has put into E.sessionHandle, which is not the
\* handle of the session that was torn down.
C34_RetriedCallsUseNewSession ==
    \A c \in SeqCallers :
        LET f == frame[c] IN
        (f.api \in RetriedApis /\ f.opened # 0 /\ f.used # 0) =>
            /\ f.used = f.opened
            /\ f.used = sessionHandle
            /\ f.used # f.torn

\* SignHash has signed after a reset of the session, on the new handle
C34_Witness ==
    \E c \in SeqCallers :
        LET f == frame[c] IN
        /\ f.api = "SignHash"
        /\ f.pc = "done"
        /\ f.ret = NilErr
        /\ f.stage = "sign"
        /\ OK("Login") \in {f.events[i] : i \in 1..Len(f.events)}
        /\ f.torn = 1
        /\ f.opened = 2
        /\ f.used = 2

(***************************************************************************)
(* Properties of the saved signatures                                      *)
(***************************************************************************)
\* C35: after any sequence of signing calls on a Protocol whose chain state
\* started empty, an Identity has an entry exactly when a Chained packet was
\* returned for it, the entry is 64 bytes long and is the signature at the
\* end of the latest Chained packet returned for the Identity; Signed
\* packets and packets of other Identities do not change it.
C35_ChainStateIsLastSignature ==
    /\ DOMAIN Signatures \subseteq Uuids
    /\ \A id \in Uuids :
          LET c == ChainedReturned(id) IN
          IF Len(c) = 0 THEN id \notin DOMAIN Signatures
          ELSE /\ id \in DOMAIN Signatures
               /\ Len(Signatures[id]) = 64
               /\ Signatures[id] = SignatureField(c[Len(c)].upp)
               /\ Signatures[id] = c[Len(c)].sig

\* the entry of an Identity is the signature of its Chained packet, two
\* packets back: a Signed packet of the Identity and a Chained packet of the
\* other Identity were returned since
C35_Witness ==
    /\ Len(returned) = 3
    /\ returned[1].version = Chained /\ returned[1].name = "devA"
    /\ returned[2].version = Signed /\ returned[2].name = "devA"
    /\ returned[3].version = Chained /\ returned[3].name = "devB"
    /\ Signatures[UuidA] = SignatureField(returned[1].upp)
    /\ Signatures[UuidB] = SignatureField(returned[3].upp)
    /\ Signatures[UuidA] # Signatures[UuidB]
    /\ Signatures[UuidA] # SignatureField(returned[2].upp)

(***************************************************************************)
(* Properties of pkcs11GetHandle                                           *)
(***************************************************************************)
\* the objects on the device of the class SignHash or GetPublicKey needs
Needed(c) ==
    Matching(dev.objects, frame[c].id,
             IF frame[c].api = "SignHash" THEN "priv" ELSE "pub")

\* C36: on a device that holds no object or more than one object of the
\* needed class for the Identity, SignHash and GetPublicKey issue no SignInit,
\* Sign or GetAttributeValue call and return an error and no bytes.
C36_OneObjectOrError ==
    \A c \in SeqCallers :
        LET f == frame[c] IN
        (f.api \in {"SignHash", "GetPublicKey"} /\ Cardinality(Needed(c)) # 1) =>
            /\ f.calls \cap {"SignInit", "Sign", "GetAttributeValue"} = {}
            /\ f.stage \in {"signHandle", "getHandle"}
            /\ f.pc = "done" => (f.ret # NilErr /\ f.out = NilBytes)

\* SignHash has searched a device with two private keys of the Identity and
\* has returned the error of pkcs11GetHandle
C36_Witness ==
    \E c \in SeqCallers :
        LET f == frame[c] IN
        /\ f.api = "SignHash"
        /\ f.pc = "done"
        /\ Cardinality(Needed(c)) = 2
        /\ f.found = 2
        /\ "FindObjectsFinal" \in f.calls
        /\ f.ret = ApiErr("moreThanOne", NilErr)

(***************************************************************************)
(* Properties of the framing bytes under Verify                            *)
(***************************************************************************)
\* the two bytes before the trailing 64 bytes of an input
FramingOf(upp) ==
    SubSeq(upp, Len(upp) - lenMsgpackSignatureElement + 1,
           Len(upp) - nistp256SignatureLength)

\* C37: Verify answers true only for an input whose two bytes before the
\* trailing 64-byte signature are 0xC4, 0x40: no returned packet with one of
\* the two bytes changed is verified as true, by the operation on any name
\* or by the Verify call that was made.
C37_FramingChecked ==
    /\ \A i \in 1..Len(returned), name \in Names :
          \A p \in FramingPositions(returned[i].upp), d \in TamperDeltas :
              LET upp == Tamper(returned[i].upp, p, d) IN
              VerifyResult(name, upp).ok => FramingOf(upp) = <<196, 64>>
    /\ (lastCall.op = "Verify" /\ lastCall.tampered) => ~lastCall.ok

\* what Verify does with the framing bytes: whatever they are, the answer is
\* that for the packet as it was returned
FramingIgnored ==
    \A i \in 1..Len(returned), name \in Names :
        \A p \in FramingPositions(returned[i].upp), d \in TamperDeltas :
            /\ FramingOf(returned[i].upp) = <<196, 64>>
            /\ VerifyResult(name, Tamper(returned[i].upp, p, d))
                  = VerifyResult(name, returned[i].upp)

====
